---------------------------- MODULE Spec2Model ----------------------------
(***************************************************************************)
(* Model of the grade-table ingestion pipeline of the student portal       *)
(* (src/services/googleSheetsService.ts).                                  *)
(*                                                                         *)
(* A JavaScript string is modelled as a sequence of characters; a          *)
(* character is a one-element TLA+ string, and the characters that are not *)
(* ASCII carry a name:                                                     *)
(*   "cyr_n" U+043D, "CYR_N" U+041D  (the absence token, lower/upper case) *)
(*   "cyr_z" "cyr_a" "cyr_ch" "cyr_e" "cyr_t"  (the letters of the pass    *)
(*   token; "CYR_Z" ... "CYR_T" are their upper case), "BOM" U+FEFF,       *)
(*   "LF" U+000A, "CR" U+000D, "TAB" U+0009.                               *)
(***************************************************************************)
EXTENDS Integers, Sequences, FiniteSets, TLC

VARIABLES
    now,        \* the calendar year new Date().getFullYear() returns
    dateStr,    \* normalizeDate: the argument of the first call
    dateRuns,   \* normalizeDate: the calls made so far, [year, arg, ret]
    lines,      \* the lines of the published sheet, as the export delivers them
    edit,       \* the change made to the sheet after the first parse, if any
    parseRuns,  \* the parses made so far, [year, text, outcome, grades]
    scoreCell,  \* the score loop: the cell row[i] of one iteration
    scoreRuns,  \* the score loop: the iterations made, [cell, scoreStr, score]
    rowArg,     \* parseCsvRow: the row string of the call
    rowRuns,    \* parseCsvRow: the calls made, [row, values]
    calls,      \* getGrades: the invocations, each with its position and result
    activeTab,  \* App: the tab on display
    tgUser,     \* the id of the Telegram user of the window, 0 without one
    view,       \* Grades: the state of the instance mounted last
    loads,      \* Grades: the invocations of loadGrades, [inst, userId, call, pc, path]
    chat,       \* Chat: the state of the instance mounted last
    sends,      \* Chat: the calls of sendMessage, [live, pc, message]
    sendRuns,   \* Chat: the submissions, [input, pending, appended, started]
    clock,      \* the time of the browser, [day, tod]
    browserPermission,  \* Notification.permission
    manager,    \* NotificationManager: the state of the instance, [permission, asked]
    notified,   \* sessionStorage: the ids with a key notified-<id>
    notifications,      \* the notifications created, [id, at, permission, browser]
    checks      \* the checks of the schedule made at this point of the clock

vars == <<now, dateStr, dateRuns, lines, edit, parseRuns, scoreCell, scoreRuns,
          rowArg, rowRuns, calls, activeTab, tgUser, view, loads,
          chat, sends, sendRuns,
          clock, browserPermission, manager, notified, notifications, checks>>
dateVars == <<dateStr, dateRuns>>
sheetVars == <<lines, edit, parseRuns>>
scoreVars == <<scoreCell, scoreRuns>>
rowVars == <<rowArg, rowRuns>>
gradesVars == <<activeTab, tgUser, view, loads>>
chatVars == <<chat, sends, sendRuns>>
notifVars == <<clock, browserPermission, manager, notified, notifications, checks>>
uiVars == <<gradesVars, chatVars, notifVars>>

\* The views of App before anything is rendered
GradesIdle ==
    /\ activeTab = "grades"
    /\ tgUser = 0
    /\ view = [ inst |-> 0, mounted |-> FALSE, user |-> 0, userGrades |-> <<>>,
               isLoading |-> TRUE, error |-> "null" ]
    /\ loads = <<>>

ChatIdle ==
    /\ chat = [ mounted |-> FALSE, messages |-> <<>>, input |-> <<>>,
               isLoading |-> FALSE ]
    /\ sends = <<>>
    /\ sendRuns = <<>>

NotifIdle ==
    /\ clock = [day |-> 1, tod |-> 0]
    /\ browserPermission = "default"
    /\ manager = [inst |-> 0, permission |-> "default", asked |-> FALSE]
    /\ notified = {}
    /\ notifications = <<>>
    /\ checks = 0

UiIdle == GradesIdle /\ ChatIdle /\ NotifIdle

-----------------------------------------------------------------------------
(* Bounds of the model *)

FirstYear == 2024
MaxYear == 2025
\* The most lines a sheet has, the most data rows written into one block, and
\* the most lines of a sheet that differ from the standard header, topic and
\* data line
MaxLines == 37
MaxDataRows == 1
MaxOddLines == 1

-----------------------------------------------------------------------------
(* JavaScript string primitives *)

Digits == {"0", "1", "2", "3", "4", "5", "6", "7", "8", "9"}

DigitVal(c) ==
    CASE c = "0" -> 0 [] c = "1" -> 1 [] c = "2" -> 2 [] c = "3" -> 3
      [] c = "4" -> 4 [] c = "5" -> 5 [] c = "6" -> 6 [] c = "7" -> 7
      [] c = "8" -> 8 [] c = "9" -> 9

DigitChar(n) ==
    CASE n = 0 -> "0" [] n = 1 -> "1" [] n = 2 -> "2" [] n = 3 -> "3"
      [] n = 4 -> "4" [] n = 5 -> "5" [] n = 6 -> "6" [] n = 7 -> "7"
      [] n = 8 -> "8" [] n = 9 -> "9"

\* The characters String.prototype.trim strips (WhiteSpace and LineTerminator).
WhiteSpace == {" ", "TAB", "LF", "CR", "BOM"}

AllDigits(s) == \A k \in 1..Len(s) : s[k] \in Digits

\* s.substring(from, to) with 1-based inclusive positions
Sub(s, from, to) == SubSeq(s, from, to)

\* The positions of s, in order, that hold no white space
inkPositions(s) ==
    SelectSeq([k \in 1..Len(s) |-> k], LAMBDA k : s[k] \notin WhiteSpace)

\* String.prototype.trimStart: the string from its first such position on
trimStart(s) ==
    LET ink == inkPositions(s)
    IN  IF ink = <<>> THEN <<>> ELSE SubSeq(s, ink[1], Len(s))

\* String.prototype.trimEnd: the string up to its last such position
trimEnd(s) ==
    LET ink == inkPositions(s)
    IN  IF ink = <<>> THEN <<>> ELSE SubSeq(s, 1, ink[Len(ink)])

\* String.prototype.trim
trim(s) == trimEnd(trimStart(s))

\* String.prototype.padStart(2, '0')
padStart2(s) == IF Len(s) < 2 THEN <<"0">> \o s ELSE s

\* The decimal digits of a non-negative integer (template-literal conversion)
RECURSIVE NumToStr(_)
NumToStr(n) ==
    IF n < 10 THEN <<DigitChar(n)>>
    ELSE NumToStr(n \div 10) \o <<DigitChar(n % 10)>>

\* String.prototype.toLowerCase, on the letters that have an upper case
\* among the characters of the model
LowerChar(c) ==
    CASE c = "CYR_N" -> "cyr_n"
      [] c = "CYR_Z" -> "cyr_z"
      [] c = "CYR_A" -> "cyr_a"
      [] c = "CYR_CH" -> "cyr_ch"
      [] c = "CYR_E" -> "cyr_e"
      [] c = "CYR_T" -> "cyr_t"
      [] c = "A" -> "a"
      [] c = "B" -> "b"
      [] c = "M" -> "m"
      [] c = "P" -> "p"
      [] c = "X" -> "x"
      [] OTHER -> c

toLowerCase(s) == [k \in 1..Len(s) |-> LowerChar(s[k])]

\* String.prototype.includes
includes(s, sub) ==
    \E k \in 0..(Len(s) - Len(sub)) : SubSeq(s, k + 1, k + Len(sub)) = sub

\* s.replace(/"/g, '')
removeQuotes(s) == SelectSeq(s, LAMBDA c : c # "\"")

\* A plausible slip: the pattern is /[\r\n]/, so a carriage return and a line
\* feed each end a row.
splitRowsAnyBreak(s) ==
    LET br == SelectSeq([k \in 1..Len(s) |-> k], LAMBDA k : s[k] \in {"CR", "LF"})
        brAt(n) == IF n = 0 THEN 0
                   ELSE IF n > Len(br) THEN Len(s) + 1
                   ELSE br[n]
    IN  [n \in 1..(Len(br) + 1) |-> SubSeq(s, brAt(n - 1) + 1, brAt(n) - 1)]

\* s.split(/\r?\n/): a row ends before each line feed, and before the
\* carriage return in front of it when there is one.
splitRows(s) ==
    LET lf == SelectSeq([k \in 1..Len(s) |-> k], LAMBDA k : s[k] = "LF")
        \* the position of the n-th line feed; 0 and Len(s) + 1 bracket them
        lfAt(n) == IF n = 0 THEN 0
                   ELSE IF n > Len(lf) THEN Len(s) + 1
                   ELSE lf[n]
        rowEnd(n) == IF /\ n <= Len(lf)
                        /\ lfAt(n) - 1 > lfAt(n - 1)
                        /\ s[lfAt(n) - 1] = "CR"
                     THEN lfAt(n) - 2
                     ELSE lfAt(n) - 1
    IN  [n \in 1..(Len(lf) + 1) |-> SubSeq(s, lfAt(n - 1) + 1, rowEnd(n))]

\* The value of a run of decimal digits
RECURSIVE DigitsVal(_)
DigitsVal(s) ==
    IF s = <<>> THEN 0
    ELSE 10 * DigitsVal(SubSeq(s, 1, Len(s) - 1)) + DigitVal(s[Len(s)])

\* A decimal literal: optional sign, then digits with an optional fraction, or
\* a fraction alone.  (The score cells of the model hold no exponent and no
\* radix prefix.)
Unsigned(s) == IF s # <<>> /\ Head(s) \in {"+", "-"} THEN Tail(s) ELSE s

DotAt(s) == { k \in 1..Len(s) : s[k] = "." }

IsDecimalLiteral(s) ==
    LET u == Unsigned(s)
    IN  \/ u # <<>> /\ AllDigits(u)
        \/ /\ Cardinality(DotAt(u)) = 1
           /\ Len(u) >= 2
           /\ \A k \in 1..Len(u) : u[k] \in Digits \cup {"."}

InfinityLiteral == <<"I", "n", "f", "i", "n", "i", "t", "y">>

\* isNaN(parseFloat(s)): parseFloat skips leading white space and reads the
\* longest prefix that is a decimal literal or Infinity; there is none unless
\* a digit comes first, after an optional sign and an optional point, or the
\* word Infinity after an optional sign.
parseFloatIsNaN(s) ==
    LET u == Unsigned(trimStart(s))
    IN  ~ \/ u # <<>> /\ Head(u) \in Digits
          \/ Len(u) >= 2 /\ Head(u) = "." /\ u[2] \in Digits
          \/ Len(u) >= Len(InfinityLiteral)
               /\ SubSeq(u, 1, Len(InfinityLiteral)) = InfinityLiteral

\* isFinite(Number(s)): Number strips white space; the empty string is 0,
\* Infinity with or without a sign is infinite and anything else that is not
\* a numeric literal is NaN.
NumberIsFinite(s) == trim(s) = <<>> \/ IsDecimalLiteral(trim(s))

RECURSIVE dropTrailingZeros(_)
dropTrailingZeros(s) ==
    IF s # <<>> /\ s[Len(s)] = "0"
    THEN dropTrailingZeros(SubSeq(s, 1, Len(s) - 1))
    ELSE s

\* Number(s) for a finite numeric s, as <<m, k>> standing for m / 10^k, with
\* the fraction in lowest form so that equal numbers are equal pairs.
Number(s) ==
    LET t == trim(s)
        u == Unsigned(t)
        dot == DotAt(u)
        int == IF dot = {} THEN u ELSE SubSeq(u, 1, (CHOOSE k \in dot : TRUE) - 1)
        frac == IF dot = {} THEN <<>>
                ELSE dropTrailingZeros(SubSeq(u, (CHOOSE k \in dot : TRUE) + 1, Len(u)))
        m == DigitsVal(int \o frac)
    IN  IF t # <<>> /\ Head(t) = "-" THEN <<0 - m, Len(frac)>> ELSE <<m, Len(frac)>>

-----------------------------------------------------------------------------
(* normalizeDate *)

DateSeps == {".", "/"}

\* The match of /^(\d{1,2})[./](\d{1,2})[./](\d{yearLen})$/, or, for
\* yearLen = 0, of /^(\d{1,2})[./](\d{1,2})$/ : the set of the possible
\* capture-group triples (empty when the string does not match, otherwise one).
DateMatch(s, yearLen) ==
    { <<Sub(s, 1, a), Sub(s, a + 2, a + 1 + b), Sub(s, a + b + 3, Len(s))>> :
        <<a, b>> \in
          { ab \in (1..2) \X (1..2) :
              LET p == ab[1]
                  q == ab[2]
              IN  /\ Len(s) = p + 1 + q + (IF yearLen = 0 THEN 0 ELSE 1 + yearLen)
                  /\ AllDigits(Sub(s, 1, p))
                  /\ s[p + 1] \in DateSeps
                  /\ AllDigits(Sub(s, p + 2, p + 1 + q))
                  /\ yearLen > 0 =>
                       /\ s[p + q + 2] \in DateSeps
                       /\ AllDigits(Sub(s, p + q + 3, Len(s))) } }

\* A plausible slip: the fields are joined without zero padding.
isoDateUnpadded(year, month, day) ==
    year \o <<"-">> \o month \o <<"-">> \o day

\* The template literal `${year}-${month.padStart(2,'0')}-${day.padStart(2,'0')}`
isoDate(year, month, day) ==
    year \o <<"-">> \o padStart2(month) \o <<"-">> \o padStart2(day)

\* A plausible slip: the year-less branch only appends the year and keeps the
\* day.month layout.
normalizeDateYearAppended(str, currentYear) ==
    IF str = <<>> THEN <<>>
    ELSE
      LET cleanedDateStr == trim(str)
          m4 == DateMatch(cleanedDateStr, 4)
          m2 == DateMatch(cleanedDateStr, 2)
          m0 == DateMatch(cleanedDateStr, 0)
      IN  IF m4 # {} THEN
            LET parts == CHOOSE p \in m4 : TRUE
            IN  isoDate(parts[3], parts[2], parts[1])
          ELSE IF m2 # {} THEN
            LET parts == CHOOSE p \in m2 : TRUE
            IN  isoDate(<<"2", "0">> \o parts[3], parts[2], parts[1])
          ELSE IF m0 # {} THEN
            LET parts == CHOOSE p \in m0 : TRUE
            IN  parts[1] \o <<".">> \o parts[2] \o <<".">> \o NumToStr(currentYear)
          ELSE cleanedDateStr

\* A plausible slip: the fall-through returns the argument, not the trimmed
\* string.
normalizeDateRawFallthrough(str, currentYear) ==
    IF str = <<>> THEN <<>>
    ELSE
      LET cleanedDateStr == trim(str)
          m4 == DateMatch(cleanedDateStr, 4)
          m2 == DateMatch(cleanedDateStr, 2)
          m0 == DateMatch(cleanedDateStr, 0)
      IN  IF m4 # {} THEN
            LET parts == CHOOSE p \in m4 : TRUE
            IN  isoDate(parts[3], parts[2], parts[1])
          ELSE IF m2 # {} THEN
            LET parts == CHOOSE p \in m2 : TRUE
            IN  isoDate(<<"2", "0">> \o parts[3], parts[2], parts[1])
          ELSE IF m0 # {} THEN
            LET parts == CHOOSE p \in m0 : TRUE
            IN  isoDate(NumToStr(currentYear), parts[2], parts[1])
          ELSE str

normalizeDate(str, currentYear) ==
    IF str = <<>> THEN <<>>
    ELSE
      LET cleanedDateStr == trim(str)
          m4 == DateMatch(cleanedDateStr, 4)
          m2 == DateMatch(cleanedDateStr, 2)
          m0 == DateMatch(cleanedDateStr, 0)
      IN  IF m4 # {} THEN
            LET parts == CHOOSE p \in m4 : TRUE
            IN  isoDate(parts[3], parts[2], parts[1])
          ELSE IF m2 # {} THEN
            LET parts == CHOOSE p \in m2 : TRUE
            IN  isoDate(<<"2", "0">> \o parts[3], parts[2], parts[1])
          ELSE IF m0 # {} THEN
            LET parts == CHOOSE p \in m0 : TRUE
            IN  isoDate(NumToStr(currentYear), parts[2], parts[1])
          ELSE cleanedDateStr

-----------------------------------------------------------------------------
(* parseCsvRow *)

\* The first position from i on where the loop does more than append the
\* character to currentVal: a quote character, or a comma outside quotes;
\* Len(row) + 1 when there is none.
nextBranch(row, i, inQuotes) ==
    LET at == SelectSeq([k \in 1..Len(row) |-> k],
                        LAMBDA k : /\ k >= i
                                   /\ \/ row[k] = "\""
                                      \/ row[k] = "," /\ ~inQuotes)
    IN  IF at = <<>> THEN Len(row) + 1 ELSE at[1]

\* A plausible slip: a quote character always opens or closes a quoted
\* section, also when it is doubled inside one.
RECURSIVE csvScanNoEscape(_, _, _, _, _)
csvScanNoEscape(row, i, values, currentVal, inQuotes) ==
    LET j == nextBranch(row, i, inQuotes)
        val == currentVal \o SubSeq(row, i, j - 1)
    IN  IF j > Len(row) THEN Append(values, trim(val))
        ELSE IF row[j] = "\"" THEN
          csvScanNoEscape(row, j + 1, values, val, ~inQuotes)
        ELSE
          csvScanNoEscape(row, j + 1, Append(values, trim(val)), <<>>, inQuotes)

\* A plausible slip: the last field is pushed as it is, untrimmed.
RECURSIVE csvScanLastUntrimmed(_, _, _, _, _)
csvScanLastUntrimmed(row, i, values, currentVal, inQuotes) ==
    LET j == nextBranch(row, i, inQuotes)
        val == currentVal \o SubSeq(row, i, j - 1)
    IN  IF j > Len(row) THEN Append(values, val)
        ELSE IF row[j] = "\"" THEN
          IF inQuotes /\ j + 1 <= Len(row) /\ row[j + 1] = "\""
          THEN csvScanLastUntrimmed(row, j + 2, values, Append(val, "\""), inQuotes)
          ELSE csvScanLastUntrimmed(row, j + 1, values, val, ~inQuotes)
        ELSE
          csvScanLastUntrimmed(row, j + 1, Append(values, trim(val)), <<>>, inQuotes)

\* The loop of parseCsvRow from position i (1-based) on.  The characters up to
\* the next quote character or comma outside quotes take the last branch of
\* the loop body (currentVal += char) and are appended in one step.
RECURSIVE csvScan(_, _, _, _, _)
csvScan(row, i, values, currentVal, inQuotes) ==
    LET j == nextBranch(row, i, inQuotes)
        val == currentVal \o SubSeq(row, i, j - 1)
    IN  IF j > Len(row) THEN Append(values, trim(val))
        ELSE IF row[j] = "\"" THEN
          IF inQuotes /\ j + 1 <= Len(row) /\ row[j + 1] = "\""
          THEN csvScan(row, j + 2, values, Append(val, "\""), inQuotes)
          ELSE csvScan(row, j + 1, values, val, ~inQuotes)
        ELSE
          csvScan(row, j + 1, Append(values, trim(val)), <<>>, inQuotes)

parseCsvRow(row) == csvScan(row, 1, <<>>, <<>>, FALSE)

-----------------------------------------------------------------------------
(* parseBlockBasedPivotData *)

subjectBlockStartRows == <<0, 18, 36, 54, 72>>

\* A plausible slip: the loop over the cells runs down to column 0.
ScoreColumnsFromZero == 3 - 3

ScoreColumnsFrom == 3
\* A plausible slip: the test of the row count is left out.
MinRowsUnchecked == 3 - 3

MinRows == 3

AbsenceToken == <<"cyr_n">>
PassToken == <<"cyr_z", "cyr_a", "cyr_ch", "cyr_e", "cyr_t">>
TopicPlaceholder == <<"N", "/", "A">>

\* arr[i]?.trim() for a 0-based index i.  An index past the end gives
\* undefined, which the code only ever tests for falsiness, as it does the
\* empty string: both are <<>> here.
cellAt(arr, i) == IF i < Len(arr) THEN trim(arr[i + 1]) ELSE <<>>

NumberScore(n) == [tag |-> "number", num |-> n, str |-> <<>>]
StringScore(t) == [tag |-> "string", num |-> <<0, 0>>, str |-> t]
NoScore == [tag |-> "none", num |-> <<0, 0>>, str |-> <<>>]

\* A plausible slip: the tokens are compared without lower-casing the cell.
classifyScoreCaseSensitive(scoreStr) ==
    IF scoreStr = AbsenceToken THEN StringScore(AbsenceToken)
    ELSE IF ~parseFloatIsNaN(scoreStr) /\ NumberIsFinite(scoreStr)
         THEN NumberScore(Number(scoreStr))
    ELSE IF includes(scoreStr, PassToken) THEN StringScore(PassToken)
    ELSE NoScore

\* A plausible slip: a numeric score is clamped to the range 0-100.
classifyScoreClamped(scoreStr) ==
    IF toLowerCase(scoreStr) = AbsenceToken THEN StringScore(AbsenceToken)
    ELSE IF ~parseFloatIsNaN(scoreStr) /\ NumberIsFinite(scoreStr)
         THEN LET n == Number(scoreStr)
              IN  NumberScore(IF n[1] < 0 THEN <<0, 0>>
                              ELSE IF n[1] > 100 * 10 ^ n[2] THEN <<100, 0>>
                              ELSE n)
    ELSE IF includes(toLowerCase(scoreStr), PassToken) THEN StringScore(PassToken)
    ELSE NoScore

\* The classification of a score cell; NoScore stands for `continue`.
classifyScore(scoreStr) ==
    IF toLowerCase(scoreStr) = AbsenceToken THEN StringScore(AbsenceToken)
    ELSE IF ~parseFloatIsNaN(scoreStr) /\ NumberIsFinite(scoreStr)
         THEN NumberScore(Number(scoreStr))
    ELSE IF includes(toLowerCase(scoreStr), PassToken) THEN StringScore(PassToken)
    ELSE NoScore

\* A plausible slip: the test of the header date is left out.
cellGradesDateUnchecked(row, i, headerRow, topicRow, subjectName, currentYear) ==
    LET scoreStr == removeQuotes(cellAt(row, i))
        date == cellAt(headerRow, i)
        topic == IF cellAt(topicRow, i) = <<>> THEN TopicPlaceholder
                 ELSE cellAt(topicRow, i)
        score == classifyScore(scoreStr)
    IN  IF scoreStr = <<>> THEN <<>>
        ELSE IF score.tag = "none" THEN <<>>
        ELSE << [ user_id |-> cellAt(row, 0),
                  user_name |-> cellAt(row, 1),
                  subject |-> subjectName,
                  topic |-> topic,
                  date |-> normalizeDate(date, currentYear),
                  score |-> score ] >>

\* The body of the loop over the cells of a data row, for column i (0-based):
\* the records it pushes (none or one).
cellGrades(row, i, headerRow, topicRow, subjectName, currentYear) ==
    LET scoreStr == removeQuotes(cellAt(row, i))
        date == cellAt(headerRow, i)
        topic == IF cellAt(topicRow, i) = <<>> THEN TopicPlaceholder
                 ELSE cellAt(topicRow, i)
        score == classifyScore(scoreStr)
    IN  IF scoreStr = <<>> THEN <<>>
        ELSE IF date = <<>> THEN <<>>
        ELSE IF score.tag = "none" THEN <<>>
        ELSE << [ user_id |-> cellAt(row, 0),
                  user_name |-> cellAt(row, 1),
                  subject |-> subjectName,
                  topic |-> topic,
                  date |-> normalizeDate(date, currentYear),
                  score |-> score ] >>

\* A plausible slip: the cells of a row are scanned from column 3 up to the
\* last column.
RECURSIVE scanCellsLeftToRight(_, _, _, _, _, _)
scanCellsLeftToRight(row, i, headerRow, topicRow, subjectName, currentYear) ==
    IF i < ScoreColumnsFrom THEN <<>>
    ELSE scanCellsLeftToRight(row, i - 1, headerRow, topicRow, subjectName, currentYear)
           \o cellGrades(row, i, headerRow, topicRow, subjectName, currentYear)

\* for (let i = row.length - 1; i >= 3; i--)
RECURSIVE scanCells(_, _, _, _, _, _)
scanCells(row, i, headerRow, topicRow, subjectName, currentYear) ==
    IF i < ScoreColumnsFrom THEN <<>>
    ELSE cellGrades(row, i, headerRow, topicRow, subjectName, currentYear)
           \o scanCells(row, i - 1, headerRow, topicRow, subjectName, currentYear)

\* A plausible slip: the test of the user id is left out.
rowGradesIdUnchecked(rowStr, headerRow, topicRow, subjectName, currentYear) ==
    IF trim(rowStr) = <<>> THEN <<>>
    ELSE
      LET row == parseCsvRow(rowStr)
      IN  scanCells(row, Len(row) - 1, headerRow, topicRow, subjectName, currentYear)

\* The callback of dataRowsForBlock.forEach
rowGrades(rowStr, headerRow, topicRow, subjectName, currentYear) ==
    IF trim(rowStr) = <<>> THEN <<>>
    ELSE
      LET row == parseCsvRow(rowStr)
      IN  IF cellAt(row, 0) = <<>> THEN <<>>
          ELSE scanCells(row, Len(row) - 1, headerRow, topicRow, subjectName, currentYear)

\* dataRowsForBlock.forEach: the records of the rows, in the order of the rows
RECURSIVE dataRowsGrades(_, _, _, _, _)
dataRowsGrades(dataRows, headerRow, topicRow, subjectName, currentYear) ==
    IF dataRows = <<>> THEN <<>>
    ELSE IF Len(dataRows) = 1
    THEN rowGrades(dataRows[1], headerRow, topicRow, subjectName, currentYear)
    ELSE LET half == Len(dataRows) \div 2
         IN  dataRowsGrades(SubSeq(dataRows, 1, half),
                            headerRow, topicRow, subjectName, currentYear)
               \o dataRowsGrades(SubSeq(dataRows, half + 1, Len(dataRows)),
                                 headerRow, topicRow, subjectName, currentYear)

\* rows.slice(from, to) for 0-based from and to
slice(rows, from, to) ==
    SubSeq(rows, from + 1, IF to < Len(rows) THEN to ELSE Len(rows))

\* The block at index blockIndex (0-based) is in the file and has a subject
\* name, so the callback goes on to read its topic row.
blockIsRead(rows, blockIndex) ==
    LET startRowIndex == subjectBlockStartRows[blockIndex + 1]
    IN  /\ startRowIndex < Len(rows)
        /\ cellAt(parseCsvRow(rows[startRowIndex + 1]), 0) # <<>>

\* parseCsvRow(rows[startRowIndex + 1]) is given undefined when the header is
\* the last row: reading row.length raises a TypeError.
blockThrows(rows, blockIndex) ==
    /\ blockIsRead(rows, blockIndex)
    /\ subjectBlockStartRows[blockIndex + 1] + 1 >= Len(rows)

\* A plausible slip: the data rows are taken from the row after the header,
\* so the topic row is read as a data row too.
blockGradesFromTopicRow(rows, blockIndex, currentYear) ==
    IF ~blockIsRead(rows, blockIndex) THEN <<>>
    ELSE
      LET startRowIndex == subjectBlockStartRows[blockIndex + 1]
          headerRow == parseCsvRow(rows[startRowIndex + 1])
          subjectName == cellAt(headerRow, 0)
          topicRow == parseCsvRow(rows[startRowIndex + 2])
          dataStartRowIndex == startRowIndex + 1
          nextBlockStart == IF blockIndex + 1 < Len(subjectBlockStartRows)
                            THEN subjectBlockStartRows[blockIndex + 2]
                            ELSE Len(rows)
          dataRowsForBlock == slice(rows, dataStartRowIndex, nextBlockStart)
      IN  dataRowsGrades(dataRowsForBlock, headerRow, topicRow, subjectName, currentYear)

\* The callback of subjectBlockStartRows.forEach: the records it pushes
blockGrades(rows, blockIndex, currentYear) ==
    IF ~blockIsRead(rows, blockIndex) THEN <<>>
    ELSE
      LET startRowIndex == subjectBlockStartRows[blockIndex + 1]
          headerRow == parseCsvRow(rows[startRowIndex + 1])
          subjectName == cellAt(headerRow, 0)
          topicRow == parseCsvRow(rows[startRowIndex + 2])
          dataStartRowIndex == startRowIndex + 2
          nextBlockStart == IF blockIndex + 1 < Len(subjectBlockStartRows)
                            THEN subjectBlockStartRows[blockIndex + 2]
                            ELSE Len(rows)
          dataRowsForBlock == slice(rows, dataStartRowIndex, nextBlockStart)
      IN  dataRowsGrades(dataRowsForBlock, headerRow, topicRow, subjectName, currentYear)

RECURSIVE allBlocks(_, _, _)
allBlocks(rows, blockIndex, currentYear) ==
    IF blockIndex >= Len(subjectBlockStartRows) THEN <<>>
    ELSE blockGrades(rows, blockIndex, currentYear)
           \o allBlocks(rows, blockIndex + 1, currentYear)

Returned(g) == [outcome |-> "returned", grades |-> g]
Thrown == [outcome |-> "threw", grades |-> <<>>]

\* The rows the parser works on: the text without a leading byte-order mark,
\* trimmed, split at line ends.
rowsOf(csvText) ==
    splitRows(trim(IF csvText # <<>> /\ Head(csvText) = "BOM"
                   THEN Tail(csvText) ELSE csvText))

\* A plausible slip: the array grades is declared outside the function, so a
\* parse keeps the records of the parse before it.
parseBlockBasedPivotDataSharedGrades(csvText, currentYear) ==
    LET earlier == IF parseRuns = <<>> THEN <<>>
                   ELSE parseRuns[Len(parseRuns)].grades
    IN  IF csvText = <<>> THEN Returned(<<>>)
        ELSE
          LET rows == rowsOf(csvText)
          IN  IF Len(rows) < MinRows THEN Returned(<<>>)
              ELSE IF \E b \in 0..(Len(subjectBlockStartRows) - 1) : blockThrows(rows, b)
                   THEN Thrown
              ELSE Returned(earlier \o allBlocks(rows, 0, currentYear))

parseBlockBasedPivotData(csvText, currentYear) ==
    IF csvText = <<>> THEN Returned(<<>>)
    ELSE
      LET rows == rowsOf(csvText)
      IN  IF Len(rows) < MinRows THEN Returned(<<>>)
          ELSE IF \E b \in 0..(Len(subjectBlockStartRows) - 1) : blockThrows(rows, b)
               THEN Thrown
          ELSE Returned(allBlocks(rows, 0, currentYear))

-----------------------------------------------------------------------------
(* One iteration of the score loop on one cell *)

PassUpper == <<"CYR_Z", "CYR_A", "CYR_CH", "CYR_E", "CYR_T">>
PassCapital == <<"CYR_Z", "cyr_a", "cyr_ch", "cyr_e", "cyr_t">>

\* Score values by kind
AbsenceCells == { <<"cyr_n">>, <<"CYR_N">> }

NumericCells ==
    { <<"5">>, <<"0">>, <<"0", "5">>, <<"1", "0", "0">>, <<"4", ".", "5">>,
      <<"5", ".", "0">>, <<".", "5">>, <<"5", ".">>, <<"-", "1">>, <<"+", "7">> }

PassCells ==
    { pre \o tok \o post :
        pre \in { <<>>, <<"5", " ">>, <<"cyr_n", " ">> },
        tok \in { PassToken, PassUpper, PassCapital },
        post \in { <<>>, <<"!">>, <<" ", "5">> } }

JunkCells ==
    { <<"x", "y", "z">>, <<"5", "x">>, <<"x", "5">>, <<"5", " ", "5">>,
      <<"5", ",", "5">>, <<"5", ".", "5", ".", "5">>, <<"-">>, <<".">>,
      <<"cyr_n", "cyr_n">>, <<"cyr_n", "5">>, <<"5", "cyr_n">>,
      <<"cyr_z", "cyr_a", "cyr_ch", "cyr_e">>,
      <<"cyr_z", "cyr_a", "cyr_ch", " ", "cyr_e", "cyr_t">>,
      InfinityLiteral, <<"-">> \o InfinityLiteral }

ScoreValues == AbsenceCells \cup NumericCells \cup PassCells \cup JunkCells

\* The cells: a value bare, with white space around it, or between quote
\* characters; cells with a quote character inside; and the blank cells
ScoreCells ==
    ScoreValues
    \cup { <<" ">> \o v \o <<" ">> : v \in ScoreValues }
    \cup { <<"\"">> \o v \o <<"\"">> : v \in AbsenceCells \cup {<<"5">>, <<"x", "y", "z">>} }
    \cup { <<"5", "\"", "5">>, <<"\"", "5", "\"", "5", "\"">>,
           <<"cyr_n", "\"", "cyr_n">>, <<"x", "\"", "y">>,
           <<"cyr_z", "cyr_a", "cyr_ch", "\"", "cyr_e", "cyr_t">> }
    \cup { <<>>, <<" ">>, <<"\"", "\"">> }

\* One pass of the loop body up to the classification: the cell is trimmed,
\* its quote characters are removed, a blank cell is skipped.
ClassifyCell ==
    /\ scoreRuns = <<>>
    /\ LET scoreStr == removeQuotes(trim(scoreCell))
       IN  scoreRuns' = <<[ cell |-> scoreCell,
                            scoreStr |-> scoreStr,
                            score |-> IF scoreStr = <<>> THEN NoScore
                                      ELSE classifyScore(scoreStr) ]>>
    /\ UNCHANGED <<now, dateVars, sheetVars, scoreCell, rowVars, calls, uiVars>>

InitScore ==
    /\ now = FirstYear
    /\ dateStr = <<>>
    /\ dateRuns = <<>>
    /\ lines = <<>>
    /\ edit = [at |-> 0, kind |-> "none", col |-> 0]
    /\ parseRuns = <<>>
    /\ scoreCell \in ScoreCells
    /\ scoreRuns = <<>>
    /\ rowArg = <<>>
    /\ rowRuns = <<>>
    /\ calls = <<>>
    /\ UiIdle

NextScore == ClassifyCell

SpecScore == InitScore /\ [][NextScore]_vars

-----------------------------------------------------------------------------
(* The clock, and the calls of normalizeDate on one date string *)

\* Day and month fields, years, and the strings that are no day-month date
Days == {<<"5">>, <<"0", "5">>, <<"3", "1">>}
Months == {<<"9">>, <<"0", "9">>, <<"1", "2">>}
Years4 == {<<"2", "0", "2", "4">>, <<"1", "9", "9", "9">>}
Years2 == {<<"2", "4">>, <<"0", "7">>}

DatedInputs ==
    { d \o <<s1>> \o m \o <<s2>> \o y :
        d \in Days, m \in Months, s1 \in DateSeps, s2 \in DateSeps,
        y \in Years4 \cup Years2 }
    \cup { d \o <<s1>> \o m : d \in Days, m \in Months, s1 \in DateSeps }

OtherInputs ==
    { <<>>,
      <<" ">>,
      <<" ", "TAB">>,
      <<"2", "0", "2", "4", "-", "0", "9", "-", "0", "5">>,
      <<"g", "a", "r", "b", "a", "g", "e">>,
      <<" ", "g", "a", "r", "b", "a", "g", "e">>,
      <<"g", "a", "r", "b", "a", "g", "e", " ">>,
      <<"g", "a", " ", "g", "e">>,
      <<" ", "5", ".", "9", ".", "2", "0", "2", "4", " ">>,
      <<"5", ".", "9", " ">>,
      <<"5", "-", "9", "-", "2", "0", "2", "4">>,
      <<"5", ".", "9", ".">>,
      <<"5", ".", "9", ".", "2", "0", "2">>,
      <<"5", ".", "9", ".", "2", "0", "2", "4", "5">>,
      <<"1", "2", "3", ".", "9", ".", "2", "0", "2", "4">>,
      <<"5", ".", ".", "2", "0", "2", "4">>,
      <<"5", ".", "9", ".", "2">>,
      <<"5">>,
      <<".", "9">>,
      <<"5", " ", ".", "9">> }

DateInputs == DatedInputs \cup OtherInputs

\* The argument the next call of normalizeDate gets: the date string, then
\* the value the call before returned.
NextArg == IF dateRuns = <<>> THEN dateStr ELSE dateRuns[Len(dateRuns)].ret

\* A call of normalizeDate: new Date().getFullYear() is read during the call.
CallNormalizeDate ==
    /\ Len(dateRuns) < 2
    /\ dateRuns' = Append(dateRuns,
                     [year |-> now, arg |-> NextArg, ret |-> normalizeDate(NextArg, now)])
    /\ UNCHANGED <<now, dateStr, sheetVars, scoreVars, rowVars, calls, uiVars>>

\* The calendar year advances between two calls.
NewYear ==
    /\ now < MaxYear
    /\ now' = now + 1
    /\ UNCHANGED <<dateVars, sheetVars, scoreVars, rowVars, calls, uiVars>>

NoEdit == [at |-> 0, kind |-> "none", col |-> 0]

InitDate ==
    /\ now \in FirstYear..MaxYear
    /\ dateStr \in DateInputs
    /\ dateRuns = <<>>
    /\ lines = <<>>
    /\ edit = NoEdit
    /\ parseRuns = <<>>
    /\ scoreCell = <<>>
    /\ scoreRuns = <<>>
    /\ rowArg = <<>>
    /\ rowRuns = <<>>
    /\ calls = <<>>
    /\ UiIdle

NextDate == CallNormalizeDate \/ NewYear

SpecDate == InitDate /\ [][NextDate]_vars

-----------------------------------------------------------------------------
(* The published sheet and the parses of its export *)

\* Cells
Math == <<"M", "a", "t", "h">>
Phys == <<"P", "h", "y", "s">>
Midterm == <<"M", "i", "d", "t", "e", "r", "m">>
u1 == <<"u", "1">>
u2 == <<"u", "2">>
u3 == <<"u", "3">>
Alice == <<"A", "l", "i", "c", "e">>
Bob == <<"B", "o", "b">>
Eve == <<"E", "v", "e">>
xyz == <<"x", "y", "z">>

\* A line made of cells that need no quoting
RECURSIVE Line(_)
Line(cells) ==
    IF Len(cells) = 1 THEN cells[1]
    ELSE cells[1] \o <<",">> \o Line(Tail(cells))

StdHeader == Line(<<Math, <<>>, <<>>, <<"5", ".", "9", ".", "2", "0", "2", "4">>>>)
StdTopic == Line(<<<<>>, <<>>, <<>>, Midterm>>)
StdData == Line(<<u1, Alice, <<>>, <<"5">>>>)

HeaderLines ==
    { StdHeader,
      Line(<<<<>>, <<>>, <<>>, <<"5", ".", "9", ".", "2", "0", "2", "4">>>>),
      Line(<<Phys, <<>>, <<>>, <<>>, <<"5", "/", "9">>>>),
      Phys }

TopicLines == { StdTopic, Line(<<<<>>, <<>>, <<>>, <<>>>>) }

DataLines ==
    { StdData,
      Line(<<<<>>, Bob, <<>>, <<"4">>, <<"3">>>>),
      Line(<<u2, Bob, <<>>, xyz, <<"CYR_N">>>>),
      Line(<<u3, Eve, <<>>, <<"CYR_Z", "cyr_a", "cyr_ch", "cyr_e", "cyr_t">>, <<"4", ".", "5">>>>),
      u2 }

StdLines == {StdHeader, StdTopic, StdData, <<>>}

OddLines == Cardinality({ k \in 1..Len(lines) : lines[k] \notin StdLines })

\* The block offsets that are lines of the sheet, and the position of the
\* next line within its block
BlockStartsIn(n) ==
    { subjectBlockStartRows[b] : b \in { c \in 1..Len(subjectBlockStartRows) :
                                           subjectBlockStartRows[c] <= n } }

LastStart(n) == CHOOSE st \in BlockStartsIn(n) : \A o \in BlockStartsIn(n) : o <= st

PoolAt(n) ==
    LET rel == n - LastStart(n)
    IN  IF rel = 0 THEN HeaderLines
        ELSE IF rel = 1 THEN TopicLines
        ELSE IF rel < 2 + MaxDataRows THEN DataLines
        ELSE {}

\* The sheet gets one more line.
AddLine ==
    /\ parseRuns = <<>>
    /\ Len(lines) < MaxLines
    /\ \E l \in PoolAt(Len(lines)) :
         /\ l \in StdLines \/ OddLines < MaxOddLines
         /\ lines' = Append(lines, l)
    /\ UNCHANGED <<now, dateVars, edit, parseRuns, scoreVars, rowVars, calls, uiVars>>

\* The sheet gets empty lines up to the next block offset.
PadToNextBlock ==
    /\ parseRuns = <<>>
    /\ lines # <<>>
    /\ \E b \in 1..Len(subjectBlockStartRows) :
         LET st == subjectBlockStartRows[b]
         IN  /\ st > Len(lines)
             /\ st - Len(lines) < subjectBlockStartRows[2]
             /\ st < MaxLines
             /\ lines' = lines \o [k \in 1..(st - Len(lines)) |-> <<>>]
    /\ UNCHANGED <<now, dateVars, edit, parseRuns, scoreVars, rowVars, calls, uiVars>>

\* The export of the sheet: its lines, joined by line feeds
RECURSIVE csvTextOf(_)
csvTextOf(ls) ==
    IF ls = <<>> THEN <<>>
    ELSE IF Len(ls) = 1 THEN ls[1]
    ELSE LET half == Len(ls) \div 2
         IN  csvTextOf(SubSeq(ls, 1, half)) \o <<"LF">>
               \o csvTextOf(SubSeq(ls, half + 1, Len(ls)))

\* parseBlockBasedPivotData(csvText), as getGrades calls it on the text of the
\* response
Parse ==
    /\ Len(parseRuns) < 2
    /\ parseRuns # <<>> => edit # NoEdit
    /\ LET csvText == csvTextOf(lines)
           res == parseBlockBasedPivotData(csvText, now)
       IN  parseRuns' = Append(parseRuns,
                          [year |-> now, text |-> csvText,
                           outcome |-> res.outcome, grades |-> res.grades])
    /\ UNCHANGED <<now, dateVars, lines, edit, scoreVars, rowVars, calls, uiVars>>

\* The changes of one line the sheet's owner makes between two fetches: the
\* subject name or a date of a header line is blanked, the user id of a data
\* line is blanked, a score is replaced by text that is no score.
EditsOf(l) ==
    IF l = StdHeader THEN
      { [to |-> Line(<<<<>>, <<>>, <<>>, <<"5", ".", "9", ".", "2", "0", "2", "4">>>>),
         kind |-> "subject", col |-> 0],
        [to |-> Line(<<Math, <<>>, <<>>, <<>>>>), kind |-> "date", col |-> 3] }
    ELSE IF l = StdData THEN
      { [to |-> Line(<<<<>>, Alice, <<>>, <<"5">>>>), kind |-> "userid", col |-> 0],
        [to |-> Line(<<u1, Alice, <<>>, xyz>>), kind |-> "score", col |-> 3] }
    ELSE IF l = Phys THEN { [to |-> <<>>, kind |-> "subject", col |-> 0] }
    ELSE IF l = u2 THEN { [to |-> <<>>, kind |-> "userid", col |-> 0] }
    ELSE {}

EditLine ==
    /\ Len(parseRuns) = 1
    /\ edit = NoEdit
    /\ \E k \in 1..Len(lines) : \E e \in EditsOf(lines[k]) :
         /\ lines' = [lines EXCEPT ![k] = e.to]
         /\ Cardinality({ j \in 1..Len(lines) : lines'[j] \notin StdLines }) <= MaxOddLines
         /\ edit' = [at |-> k - 1, kind |-> e.kind, col |-> e.col]
    /\ UNCHANGED <<now, dateVars, parseRuns, scoreVars, rowVars, calls, uiVars>>

Init ==
    /\ now = FirstYear
    /\ dateStr = <<>>
    /\ dateRuns = <<>>
    /\ lines = <<>>
    /\ edit = NoEdit
    /\ parseRuns = <<>>
    /\ scoreCell = <<>>
    /\ scoreRuns = <<>>
    /\ rowArg = <<>>
    /\ rowRuns = <<>>
    /\ calls = <<>>
    /\ UiIdle

Next == AddLine \/ PadToNextBlock \/ Parse \/ EditLine

Spec == Init /\ [][Next]_vars

-----------------------------------------------------------------------------
(* Sheets written block by block, up to the last block offset and past it *)

week1 == <<"w", "e", "e", "k", " ", "1">>
Chem == <<"C", "h", "e", "m">>

\* Header lines: dates of every layout, a date that is no day-month date, a
\* quoted date, a blank subject, and a header that reads like a data line
BlockHeaders ==
    { StdHeader,
      Line(<<Phys, <<>>, <<>>, week1, <<"5", "/", "9">>,
             <<" ", "7", ".", "1", "0", ".", "2", "4">>>>),
      Line(<<Chem, <<>>, <<>>, <<"2", "0", "2", "4", "-", "0", "9", "-", "0", "5">>,
             <<"\"", "5", ".", "9", ".", "2", "0", "2", "4", "\"">>>>),
      Line(<<<<>>, <<>>, <<>>, <<"5", ".", "9", ".", "2", "0", "2", "4">>>>),
      Line(<<u2, Bob, <<>>, <<"5">>, <<"4">>>>) }

\* Topic lines: the standard one and one that reads like a data line
BlockTopics == { StdTopic, Line(<<u3, Eve, <<>>, <<"4">>, <<"5">>, <<"3">>>>) }

\* Data lines: scores inside and outside the range 0-100, an infinite
\* number, the tokens, junk
BlockData ==
    { StdData,
      Line(<<u2, Bob, <<>>, <<"1", "5", "0">>, InfinityLiteral, <<"0", ".", "5">>>>),
      Line(<<u3, Eve, <<>>, <<"CYR_Z", "cyr_a", "cyr_ch", "cyr_e", "cyr_t">>,
             <<"CYR_N">>, xyz>>),
      Line(<<u2, Bob, <<>>, <<"-", "1">>>>),
      Line(<<u3, Eve, <<>>, <<"cyr_n">>>>),
      Line(<<u1, Alice, <<>>, InfinityLiteral>>) }

BlockHeight == subjectBlockStartRows[2] - subjectBlockStartRows[1]

EmptyLines(n) == [k \in 1..n |-> <<>>]

\* The sheet gets the next block: header, topic, one data line, and empty
\* lines up to the next offset.
AddBlock ==
    /\ parseRuns = <<>>
    /\ \E b \in 1..Len(subjectBlockStartRows) :
         /\ Len(lines) = subjectBlockStartRows[b]
         /\ \E h \in BlockHeaders, t \in BlockTopics, d \in BlockData :
              /\ lines' = lines \o <<h, t, d>> \o EmptyLines(BlockHeight - 3)
              /\ Cardinality({ j \in 1..Len(lines') : lines'[j] \notin StdLines })
                   <= MaxOddLines
    /\ UNCHANGED <<now, dateVars, edit, parseRuns, scoreVars, rowVars, calls, uiVars>>

\* The sheet, empty so far, gets a block of empty lines.
SkipBlock ==
    /\ parseRuns = <<>>
    /\ \E b \in 1..Len(subjectBlockStartRows) : Len(lines) = subjectBlockStartRows[b]
    /\ \A k \in 1..Len(lines) : lines[k] = <<>>
    /\ lines' = lines \o EmptyLines(BlockHeight)
    /\ UNCHANGED <<now, dateVars, edit, parseRuns, scoreVars, rowVars, calls, uiVars>>

\* Below the last block, one block height past the last offset, the sheet
\* gets one more data line.
AddTailRow ==
    /\ parseRuns = <<>>
    /\ Len(lines) = subjectBlockStartRows[Len(subjectBlockStartRows)] + BlockHeight
    /\ \E d \in BlockData :
         /\ lines' = Append(lines, d)
         /\ Cardinality({ j \in 1..Len(lines') : lines'[j] \notin StdLines })
              <= MaxOddLines
    /\ UNCHANGED <<now, dateVars, edit, parseRuns, scoreVars, rowVars, calls, uiVars>>

NextBlocks == AddBlock \/ SkipBlock \/ AddTailRow \/ Parse

SpecBlocks == Init /\ [][NextBlocks]_vars

-----------------------------------------------------------------------------
(* One sheet exported and parsed twice, the calendar year advancing *)

PhysYearLess == Line(<<Phys, <<>>, <<>>, <<>>, <<"5", "/", "9">>>>)
AbsentRow == Line(<<u2, Bob, <<>>, xyz, <<"CYR_N">>>>)

\* A header with dates from column 1 on and a data line with scores from
\* column 0 on
DatedFromColumn1 ==
    Line(<<Math, <<"5", ".", "9", ".", "2", "0", "2", "4">>,
           <<"6", ".", "9", ".", "2", "0", "2", "4">>,
           <<"7", ".", "9", ".", "2", "0", "2", "4">>>>)
ScoresFromColumn0 == Line(<<<<"5">>, <<"4">>, <<"3">>, <<"5">>>>)

\* Two blocks with two dated columns each; two data rows in the first
OrderSheet ==
    << Line(<<Math, <<>>, <<>>, <<"5", ".", "9", ".", "2", "0", "2", "4">>,
              <<"6", ".", "9", ".", "2", "0", "2", "4">>>>),
       StdTopic,
       Line(<<u1, Alice, <<>>, <<"5">>, <<"4">>>>),
       Line(<<u2, Bob, <<>>, <<"3">>, <<"CYR_N">>>>) >>
    \o EmptyLines(BlockHeight - 4)
    \o << Line(<<Phys, <<>>, <<>>, <<"7", ".", "9", ".", "2", "0", "2", "4">>,
                 <<"8", ".", "9", ".", "2", "0", "2", "4">>>>),
          StdTopic,
          Line(<<u1, Alice, <<>>, PassToken, <<"2">>>>) >>

\* The sheets: empty, one and two lines, the three-line example, a date
\* without a year, a blank first line, two blocks, a header on the last
\* line, scores in the first columns, several records in a row
ReparseSheets ==
    { <<>>,
      <<StdHeader>>,
      <<StdHeader, StdTopic>>,
      <<StdHeader, StdTopic, StdData>>,
      <<PhysYearLess, StdTopic, AbsentRow>>,
      <<<<>>, StdHeader, StdTopic, StdData>>,
      <<StdHeader, StdTopic, StdData>> \o EmptyLines(BlockHeight - 3)
        \o <<PhysYearLess, StdTopic, AbsentRow, StdData>>,
      <<StdHeader, StdTopic, StdData>> \o EmptyLines(BlockHeight - 3) \o <<Phys>>,
      <<DatedFromColumn1, StdTopic, ScoresFromColumn0>>,
      OrderSheet }

LineEnds == { <<"LF">>, <<"CR", "LF">> }

RECURSIVE joinLines(_, _)
joinLines(ls, eol) ==
    IF ls = <<>> THEN <<>>
    ELSE IF Len(ls) = 1 THEN ls[1]
    ELSE LET half == Len(ls) \div 2
         IN  joinLines(SubSeq(ls, 1, half), eol) \o eol
               \o joinLines(SubSeq(ls, half + 1, Len(ls)), eol)

\* The text of a response: the lines joined by the line end of the export,
\* after a byte-order mark or not
exportOf(ls, bom, eol) ==
    (IF bom THEN <<"BOM">> ELSE <<>>) \o joinLines(ls, eol)

\* parseBlockBasedPivotData(csvText) on the text of one more response
ParseExport ==
    /\ Len(parseRuns) < 2
    /\ \E bom \in BOOLEAN, eol \in LineEnds :
         LET csvText == exportOf(lines, bom, eol)
             res == parseBlockBasedPivotData(csvText, now)
         IN  parseRuns' = Append(parseRuns,
                            [year |-> now, text |-> csvText,
                             outcome |-> res.outcome, grades |-> res.grades])
    /\ UNCHANGED <<now, dateVars, lines, edit, scoreVars, rowVars, calls, uiVars>>

InitReparse ==
    /\ now = FirstYear
    /\ dateStr = <<>>
    /\ dateRuns = <<>>
    /\ lines \in ReparseSheets
    /\ edit = NoEdit
    /\ parseRuns = <<>>
    /\ scoreCell = <<>>
    /\ scoreRuns = <<>>
    /\ rowArg = <<>>
    /\ rowRuns = <<>>
    /\ calls = <<>>
    /\ UiIdle

NextReparse == ParseExport \/ NewYear

SpecReparse == InitReparse /\ [][NextReparse]_vars

-----------------------------------------------------------------------------
(* One call of parseCsvRow on one row *)

\* The most cells of a row written by the export
MaxCells == 3

Quote == "\""

\* A cell as the export writes it into a row: quote characters are doubled
\* and the whole is put between quote characters.
quotedCell(v) ==
    LET at(k) == IF v[k] = Quote THEN <<Quote, Quote>> ELSE <<v[k]>>
        RECURSIVE from(_)
        from(k) == IF k > Len(v) THEN <<>> ELSE at(k) \o from(k + 1)
    IN  <<Quote>> \o from(1) \o <<Quote>>

\* The cells of a sheet: plain, with a comma, with a quote character, empty,
\* with white space around; written bare where that is possible, or quoted
SheetCells ==
    { [value |-> v, text |-> v] :
        v \in { <<"a">>, <<>>, <<" ", "d", " ">> } }
    \cup
    { [value |-> v, text |-> quotedCell(v)] :
        v \in { <<"a">>, <<>>, <<" ", "d", " ">>,
                <<"b", ",", "c">>, <<"b", Quote, "c">> } }

\* Rows written by hand: a quote that is not closed, quote characters inside
\* a bare cell, white space around a quoted cell, text after a closing quote
HandRows ==
    { <<"a", ",", Quote, "b", ",", "c">>,
      <<"a", Quote, Quote, "b", ",", "c">>,
      <<" ", Quote, "a", Quote, " ", ",", "b">>,
      <<"a", Quote, "b", ",", "c", Quote, "d">>,
      <<Quote, "a", Quote, "x", ",", " ">>,
      <<Quote, Quote, Quote, Quote>>,
      <<Quote>>,
      <<"TAB", "a", ",", "b", "CR">> }

RowInputs ==
    { [cells |-> cs, row |-> Line([k \in 1..Len(cs) |-> cs[k].text])] :
        cs \in UNION { [1..n -> SheetCells] : n \in 1..MaxCells } }
    \cup { [cells |-> <<>>, row |-> r] : r \in HandRows }

CallParseCsvRow ==
    /\ rowRuns = <<>>
    /\ rowRuns' = <<[ cells |-> rowArg.cells, row |-> rowArg.row,
                      values |-> parseCsvRow(rowArg.row) ]>>
    /\ UNCHANGED <<now, dateVars, sheetVars, scoreVars, rowArg, calls, uiVars>>

InitRow ==
    /\ now = FirstYear
    /\ dateStr = <<>>
    /\ dateRuns = <<>>
    /\ lines = <<>>
    /\ edit = NoEdit
    /\ parseRuns = <<>>
    /\ scoreCell = <<>>
    /\ scoreRuns = <<>>
    /\ rowArg \in RowInputs
    /\ rowRuns = <<>>
    /\ calls = <<>>
    /\ UiIdle

NextRow == CallParseCsvRow

SpecRow == InitRow /\ [][NextRow]_vars

-----------------------------------------------------------------------------
(* getGrades: invocations suspended at their awaits, over a sheet that its *)
(* owner republishes                                                        *)

\* The most invocations of getGrades
MaxCalls == 2

FetchSheets ==
    { <<>>,
      <<StdHeader, StdTopic, StdData>>,
      <<PhysYearLess, StdTopic, AbsentRow>>,
      <<StdHeader, StdTopic, StdData>> \o EmptyLines(BlockHeight - 3) \o <<Phys>> }

\* An invocation at `await fetch(SPREADSHEET_URL)`
NewCall ==
    [ pc |-> "fetch", net |-> "pending", text |-> <<>>, year |-> 0,
      outcome |-> "none", grades |-> <<>>, settled |-> 0 ]

SettledCalls(cs) == Cardinality({ k \in 1..Len(cs) : cs[k].pc = "done" })

\* The catch block: whatever was thrown inside try, the invocation ends by
\* throwing the one Error of line 86.
failCall(cs, i, why) ==
    [cs EXCEPT ![i] = [@ EXCEPT !.pc = "done", !.net = why, !.outcome = "threw",
                                !.settled = SettledCalls(cs) + 1]]

\* A plausible slip: the array grades is declared outside the functions, so
\* an invocation returns the records of the invocations settled before it too.
settleCallSharedGrades(cs, i, csvText, year) ==
    LET res == parseBlockBasedPivotData(csvText, year)
        RECURSIVE earlier(_)
        earlier(k) == IF k > Len(cs) THEN <<>>
                      ELSE (IF cs[k].pc = "done" THEN cs[k].grades ELSE <<>>)
                             \o earlier(k + 1)
    IN  [cs EXCEPT ![i] = [@ EXCEPT !.pc = "done", !.net = "ok", !.text = csvText,
                                    !.year = year, !.outcome = res.outcome,
                                    !.grades = IF res.outcome = "returned"
                                               THEN earlier(1) \o res.grades
                                               ELSE <<>>,
                                    !.settled = SettledCalls(cs) + 1]]

\* `return parseBlockBasedPivotData(csvText)` inside try: the invocation
\* returns the list, or, when the parse throws, ends in the catch block.
settleCall(cs, i, csvText, year) ==
    LET res == parseBlockBasedPivotData(csvText, year)
    IN  [cs EXCEPT ![i] = [@ EXCEPT !.pc = "done", !.net = "ok", !.text = csvText,
                                    !.year = year, !.outcome = res.outcome,
                                    !.grades = res.grades,
                                    !.settled = SettledCalls(cs) + 1]]

\* getGrades is called and suspends at the fetch.
CallGetGrades ==
    /\ Len(calls) < MaxCalls
    /\ calls' = Append(calls, NewCall)
    /\ UNCHANGED <<now, dateVars, sheetVars, scoreVars, rowVars, uiVars>>

\* The fetch rejects (no network).
FetchRejects ==
    /\ \E i \in 1..Len(calls) :
         /\ calls[i].pc = "fetch"
         /\ calls' = failCall(calls, i, "rejected")
    /\ UNCHANGED <<now, dateVars, sheetVars, scoreVars, rowVars, uiVars>>

\* The fetch resolves with a response; when response.ok is false the
\* invocation throws, otherwise it suspends at response.text().
FetchResolves ==
    /\ \E i \in 1..Len(calls), ok \in BOOLEAN :
         /\ calls[i].pc = "fetch"
         /\ calls' = IF ok THEN [calls EXCEPT ![i].pc = "text"]
                     ELSE failCall(calls, i, "notok")
    /\ UNCHANGED <<now, dateVars, sheetVars, scoreVars, rowVars, uiVars>>

\* Reading the body fails.
TextRejects ==
    /\ \E i \in 1..Len(calls) :
         /\ calls[i].pc = "text"
         /\ calls' = failCall(calls, i, "bodyfailed")
    /\ UNCHANGED <<now, dateVars, sheetVars, scoreVars, rowVars, uiVars>>

\* The body arrives, the export of the sheet as it is now, and is parsed.
TextResolves ==
    /\ \E i \in 1..Len(calls) :
         /\ calls[i].pc = "text"
         /\ calls' = settleCall(calls, i, csvTextOf(lines), now)
    /\ UNCHANGED <<now, dateVars, sheetVars, scoreVars, rowVars, uiVars>>

\* The owner publishes another sheet.
Republish ==
    /\ \E s \in FetchSheets \ {lines} : lines' = s
    /\ UNCHANGED <<now, dateVars, edit, parseRuns, scoreVars, rowVars, calls, uiVars>>

InitFetch ==
    /\ now = FirstYear
    /\ dateStr = <<>>
    /\ dateRuns = <<>>
    /\ lines \in FetchSheets
    /\ edit = NoEdit
    /\ parseRuns = <<>>
    /\ scoreCell = <<>>
    /\ scoreRuns = <<>>
    /\ rowArg = <<>>
    /\ rowRuns = <<>>
    /\ calls = <<>>
    /\ UiIdle

NextFetch ==
    \/ CallGetGrades
    \/ FetchRejects
    \/ FetchResolves
    \/ TextRejects
    \/ TextResolves
    \/ Republish
    \/ NewYear

SpecFetch == InitFetch /\ [][NextFetch]_vars

-----------------------------------------------------------------------------
(* The Chat view of App: the state of an instance and the calls of          *)
(* sendMessage that handleSend awaits                                        *)

\* The state of a Chat instance after useState: lines 37-41
NewChat == [ mounted |-> TRUE, messages |-> <<>>, input |-> <<>>, isLoading |-> FALSE ]

\* No Chat instance
NoChat == [NewChat EXCEPT !.mounted = FALSE]

\* The calls of sendMessage made by an instance that is unmounted: their
\* state setters change nothing any more.
orphaned(ss) == [k \in 1..Len(ss) |-> [ss[k] EXCEPT !.live = FALSE]]

-----------------------------------------------------------------------------
(* The Grades view of App: mounts, tab switches, refresh clicks and the    *)
(* invocations of loadGrades suspended at `await getGrades()`              *)

\* The most invocations of loadGrades
MaxLoads == 2

\* window.Telegram?.WebApp?.initDataUnsafe?.user: 0 when there is no user
NoTelegramUser == 0
TelegramUsers == {NoTelegramUser, 7}

Tabs == {"grades", "chat"}

id7 == <<"7">>
id8 == <<"8">>
Demo == <<"D", "e", "m", "o">>

\* The demonstration records imported from ../constants
GRADES_DATA ==
    << [ user_id |-> id7, user_name |-> Alice, subject |-> Demo, topic |-> Midterm,
         date |-> <<"2", "0", "2", "4", "-", "0", "1", "-", "0", "1">>,
         score |-> NumberScore(<<4, 0>>) ],
       [ user_id |-> id8, user_name |-> Bob, subject |-> Demo, topic |-> Midterm,
         date |-> <<"2", "0", "2", "4", "-", "0", "1", "-", "0", "1">>,
         score |-> NumberScore(<<3, 0>>) ],
       [ user_id |-> id7, user_name |-> Alice, subject |-> Demo, topic |-> Midterm,
         date |-> <<"2", "0", "2", "4", "-", "0", "1", "-", "0", "2">>,
         score |-> StringScore(PassToken) ] >>

\* The sheets the Grades view fetches: rows of the users 7 and 8
GradeSheets ==
    { <<StdHeader, StdTopic, Line(<<id7, Alice, <<>>, <<"5">>>>),
        Line(<<id8, Bob, <<>>, <<"4">>>>)>>,
      <<Line(<<Phys, <<>>, <<>>, <<"5", ".", "9", ".", "2", "0", "2", "4">>,
               <<"6", ".", "9", ".", "2", "0", "2", "4">>>>),
        StdTopic,
        Line(<<id8, Bob, <<>>, <<"2">>>>),
        Line(<<id7, Alice, <<>>, <<"3">>, <<"CYR_N">>>>)>> }

NoError == "null"
NoUserError == "no Telegram user"
FetchError == "no connection, demonstration data shown"

\* The state of a Grades instance after useState: lines 15-21
NewView(inst) ==
    [ inst |-> inst, mounted |-> TRUE, user |-> NoTelegramUser,
      userGrades |-> <<>>, isLoading |-> TRUE, error |-> NoError ]

\* No Grades instance yet
NoView == [NewView(0) EXCEPT !.mounted = FALSE]

\* fetchedGrades.filter(grade => grade.user_id === currentUserId)
filterGrades(gs, currentUserId) == SelectSeq(gs, LAMBDA g : g.user_id = currentUserId)

\* loadGrades up to its first await: without a Telegram user it ends at
\* once; otherwise it calls getGrades and suspends.
startLoadGrades(v, tg, cs, ls) ==
    IF tg = NoTelegramUser
    THEN [ view |-> [v EXCEPT !.error = NoUserError, !.userGrades = <<>>,
                              !.isLoading = FALSE],
           calls |-> cs,
           loads |-> Append(ls, [ inst |-> v.inst, userId |-> <<>>, call |-> 0,
                                  pc |-> "done", path |-> "nouser" ]) ]
    ELSE [ view |-> [v EXCEPT !.isLoading = TRUE, !.error = NoError, !.user = tg],
           calls |-> Append(cs, NewCall),
           loads |-> Append(ls, [ inst |-> v.inst, userId |-> NumToStr(tg),
                                  call |-> Len(cs) + 1,
                                  pc |-> "await", path |-> "pending" ]) ]

\* A plausible slip: the fetched records are added to the list on display.
resumeLoadGradesAppending(v, currentUserId, call) ==
    LET settled ==
          IF call.outcome = "returned"
          THEN [v EXCEPT !.userGrades = @ \o filterGrades(call.grades, currentUserId)]
          ELSE [v EXCEPT !.error = FetchError,
                         !.userGrades = filterGrades(GRADES_DATA, currentUserId)]
    IN  [settled EXCEPT !.isLoading = FALSE]

\* A plausible slip: on a failure the demonstration records are added to the
\* list on display.
resumeLoadGradesMixing(v, currentUserId, call) ==
    LET settled ==
          IF call.outcome = "returned"
          THEN [v EXCEPT !.userGrades = filterGrades(call.grades, currentUserId)]
          ELSE [v EXCEPT !.error = FetchError,
                         !.userGrades = @ \o filterGrades(GRADES_DATA, currentUserId)]
    IN  [settled EXCEPT !.isLoading = FALSE]

\* A plausible slip: setIsLoading(false) at the end of try instead of in
\* finally.
resumeLoadGradesNoFinally(v, currentUserId, call) ==
    IF call.outcome = "returned"
    THEN [v EXCEPT !.userGrades = filterGrades(call.grades, currentUserId),
                   !.isLoading = FALSE]
    ELSE [v EXCEPT !.error = FetchError,
                   !.userGrades = filterGrades(GRADES_DATA, currentUserId)]

\* loadGrades after `await getGrades()`: the try, catch and finally blocks
resumeLoadGrades(v, currentUserId, call) ==
    LET settled ==
          IF call.outcome = "returned"
          THEN [v EXCEPT !.userGrades = filterGrades(call.grades, currentUserId)]
          ELSE [v EXCEPT !.error = FetchError,
                         !.userGrades = filterGrades(GRADES_DATA, currentUserId)]
    IN  [settled EXCEPT !.isLoading = FALSE]

\* The invocations of loadGrades suspended at `await getGrades()`
Awaiting == { l \in 1..Len(loads) : loads[l].pc = "await" }

\* A click on a navigation button: setActiveTab, and renderContent replaces
\* the content. The instance of the tab that is left is unmounted; a new
\* instance of the tab that is opened is mounted, and the effect of a new
\* Grades instance calls loadGrades.
SwitchTab ==
    /\ \E t \in Tabs \ {activeTab} :
         /\ activeTab' = t
         /\ IF t = "grades"
            THEN /\ Len(loads) < MaxLoads
                 /\ LET s == startLoadGrades(NewView(view.inst + 1), tgUser, calls, loads)
                    IN  view' = s.view /\ calls' = s.calls /\ loads' = s.loads
                 /\ chat' = [chat EXCEPT !.mounted = FALSE]
                 /\ sends' = orphaned(sends)
            ELSE /\ view' = [view EXCEPT !.mounted = FALSE]
                 /\ chat' = NewChat
                 /\ UNCHANGED <<calls, loads, sends>>
    /\ UNCHANGED <<now, dateVars, sheetVars, scoreVars, rowVars, tgUser, sendRuns,
                   notifVars>>

\* A click on the refresh button, which is disabled while isLoading
ClickRefresh ==
    /\ view.mounted
    /\ ~view.isLoading
    /\ Len(loads) < MaxLoads
    /\ LET s == startLoadGrades(view, tgUser, calls, loads)
       IN  view' = s.view /\ calls' = s.calls /\ loads' = s.loads
    /\ UNCHANGED <<now, dateVars, sheetVars, scoreVars, rowVars, activeTab, tgUser,
                   chatVars, notifVars>>

\* getGrades has settled and loadGrades goes on after its await. The state
\* setters of an instance that is no longer mounted change nothing.
ResumeLoadGrades ==
    /\ \E l \in Awaiting :
         LET call == calls[loads[l].call]
         IN  /\ call.pc = "done"
             /\ view' = IF view.mounted /\ view.inst = loads[l].inst
                        THEN resumeLoadGrades(view, loads[l].userId, call)
                        ELSE view
             /\ loads' = [loads EXCEPT ![l].pc = "done",
                                       ![l].path = IF call.outcome = "returned"
                                                   THEN "ok" ELSE "failed"]
    /\ UNCHANGED <<now, dateVars, sheetVars, scoreVars, rowVars, calls, activeTab,
                   tgUser, chatVars, notifVars>>

\* The owner publishes another sheet.
PublishGrades ==
    /\ \E s \in GradeSheets \ {lines} : lines' = s
    /\ UNCHANGED <<now, dateVars, edit, parseRuns, scoreVars, rowVars, calls, uiVars>>

\* App has rendered the tab 'grades' and the effect of Grades has run.
InitGrades ==
    /\ now = FirstYear
    /\ dateStr = <<>>
    /\ dateRuns = <<>>
    /\ lines \in GradeSheets
    /\ edit = NoEdit
    /\ parseRuns = <<>>
    /\ scoreCell = <<>>
    /\ scoreRuns = <<>>
    /\ rowArg = <<>>
    /\ rowRuns = <<>>
    /\ activeTab = "grades"
    /\ tgUser \in TelegramUsers
    /\ LET s == startLoadGrades(NewView(1), tgUser, <<>>, <<>>)
       IN  view = s.view /\ calls = s.calls /\ loads = s.loads
    /\ ChatIdle
    /\ NotifIdle

NextGrades ==
    \/ SwitchTab
    \/ ClickRefresh
    \/ ResumeLoadGrades
    \/ FetchRejects
    \/ FetchResolves
    \/ TextRejects
    \/ TextResolves
    \/ PublishGrades

SpecGrades == InitGrades /\ [][NextGrades]_vars

\* The fetch settles, and a settled await is resumed.
FairGrades ==
    /\ WF_vars(FetchRejects \/ FetchResolves)
    /\ WF_vars(TextRejects \/ TextResolves)
    /\ WF_vars(ResumeLoadGrades)

SpecGradesFair == SpecGrades /\ FairGrades

-----------------------------------------------------------------------------
(* The Chat view: typing, submitting the form and the replies of the       *)
(* assistant                                                                *)

\* The most calls of sendMessage and the most submissions of the form
MaxSends == 2
MaxSubmits == 4

Hi == <<"h", "i">>
ChatInputs == { <<>>, <<" ">>, Hi }

ReplyText == <<"o", "k">>
ErrorText == <<"e", "r", "r", "o", "r">>

\* handleSend up to `await chatSession.current.sendMessage(...)`
handleSend(c, ss) ==
    IF trim(c.input) = <<>> \/ c.isLoading THEN [ chat |-> c, sends |-> ss ]
    ELSE [ chat |-> [c EXCEPT !.messages = Append(@, [sender |-> "user", text |-> c.input]),
                              !.input = <<>>,
                              !.isLoading = TRUE],
           sends |-> Append(ss, [live |-> TRUE, pc |-> "await", message |-> c.input]) ]

\* A plausible slip: the catch block only logs the error.
settleSendErrorLogged(c, ok) ==
    [c EXCEPT !.messages = IF ok THEN Append(@, [sender |-> "ai", text |-> ReplyText])
                           ELSE @,
              !.isLoading = FALSE]

\* handleSend after its await: the reply, or the message of the catch block,
\* is appended, and finally isLoading is reset.
settleSend(c, ok) ==
    [c EXCEPT !.messages = Append(@, [sender |-> "ai",
                                      text |-> IF ok THEN ReplyText ELSE ErrorText]),
              !.isLoading = FALSE]

\* onChange of the input, which is disabled while isLoading
TypeInput ==
    /\ chat.mounted
    /\ ~chat.isLoading
    /\ \E text \in ChatInputs \ {chat.input} : chat' = [chat EXCEPT !.input = text]
    /\ UNCHANGED <<now, dateVars, sheetVars, scoreVars, rowVars, calls, gradesVars,
                   sends, sendRuns, notifVars>>

\* onSubmit of the form
SubmitForm ==
    /\ chat.mounted
    /\ Len(sendRuns) < MaxSubmits
    /\ LET s == handleSend(chat, sends)
       IN  /\ Len(s.sends) <= MaxSends
           /\ chat' = s.chat
           /\ sends' = s.sends
           /\ sendRuns' = Append(sendRuns,
                [ input |-> chat.input, pending |-> chat.isLoading,
                  appended |-> SubSeq(s.chat.messages, Len(chat.messages) + 1,
                                      Len(s.chat.messages)),
                  started |-> Len(s.sends) - Len(sends) ])
    /\ UNCHANGED <<now, dateVars, sheetVars, scoreVars, rowVars, calls, gradesVars,
                   notifVars>>

\* sendMessage settles, with a reply or with an error.
SendSettles ==
    /\ \E k \in 1..Len(sends), ok \in BOOLEAN :
         /\ sends[k].pc = "await"
         /\ sends' = [sends EXCEPT ![k].pc = IF ok THEN "replied" ELSE "failed"]
         /\ chat' = IF sends[k].live THEN settleSend(chat, ok) ELSE chat
    /\ UNCHANGED <<now, dateVars, sheetVars, scoreVars, rowVars, calls, gradesVars,
                   sendRuns, notifVars>>

\* App has rendered the tab 'grades', as in InitGrades.
InitChat ==
    /\ now = FirstYear
    /\ dateStr = <<>>
    /\ dateRuns = <<>>
    /\ lines = <<>>
    /\ edit = NoEdit
    /\ parseRuns = <<>>
    /\ scoreCell = <<>>
    /\ scoreRuns = <<>>
    /\ rowArg = <<>>
    /\ rowRuns = <<>>
    /\ activeTab = "grades"
    /\ tgUser \in TelegramUsers
    /\ LET s == startLoadGrades(NewView(1), tgUser, <<>>, <<>>)
       IN  view = s.view /\ calls = s.calls /\ loads = s.loads
    /\ ChatIdle
    /\ NotifIdle

NextChat == SwitchTab \/ TypeInput \/ SubmitForm \/ SendSettles

SpecChat == InitChat /\ [][NextChat]_vars

-----------------------------------------------------------------------------
(* NotificationManager: the checks of the schedule made at mounts, on      *)
(* timer ticks and after the answer to the permission prompt               *)

NOTIFICATION_LEAD_TIME_MINUTES == 15

\* The clock points per minute, the clock points of a day, the days on which
\* the classes recur, the most checks of the schedule at one clock point and
\* the most instances of NotificationManager
TicksPerMinute == 2
DayLen == 5
MaxDays == 2
MaxChecks == 2
MaxMounts == 2

Permissions == {"default", "granted", "denied"}

\* The classes of the day, from the schedules imported from ../constants, the
\* start as clock points after the first point of the clock; the time of
\* the last one does not parse.
TodayClasses ==
    << [ id |-> 1, timed |-> TRUE,
         start |-> NOTIFICATION_LEAD_TIME_MINUTES * TicksPerMinute + 1 ],
       [ id |-> 2, timed |-> TRUE,
         start |-> NOTIFICATION_LEAD_TIME_MINUTES * TicksPerMinute + 2 ],
       [ id |-> 3, timed |-> FALSE, start |-> 0 ] >>

\* useState(Notification.permission) and the first effect: the permission is
\* requested when it is 'default'.
mountManager(inst, bp) ==
    [ inst |-> inst, permission |-> bp, asked |-> (bp = "default") ]

\* A plausible slip: the notification is created without a look at
\* sessionStorage.
sendNotificationUnrecorded(item, st, perm, bp, at) ==
    [ notified |-> st.notified \cup {item.id},
      notifications |-> Append(st.notifications,
                          [ id |-> item.id, at |-> at, permission |-> perm,
                            browser |-> bp ]) ]

\* sendNotification: one notification per key of sessionStorage
sendNotification(item, st, perm, bp, at) ==
    IF item.id \in st.notified THEN st
    ELSE [ notified |-> st.notified \cup {item.id},
           notifications |-> Append(st.notifications,
                               [ id |-> item.id, at |-> at, permission |-> perm,
                                 browser |-> bp ]) ]

\* timeDifferenceMs > (LEAD - 1) minutes && timeDifferenceMs <= LEAD minutes
inLeadWindow(timeDifference) ==
    /\ timeDifference > (NOTIFICATION_LEAD_TIME_MINUTES - 1) * TicksPerMinute
    /\ timeDifference <= NOTIFICATION_LEAD_TIME_MINUTES * TicksPerMinute

\* todaySchedule.classes.forEach(...)
RECURSIVE forEachClass(_, _, _, _, _, _)
forEachClass(classes, k, st, perm, bp, at) ==
    IF k > Len(classes) THEN st
    ELSE LET item == classes[k]
             next == IF item.timed /\ inLeadWindow(item.start - at.tod)
                     THEN sendNotification(item, st, perm, bp, at)
                     ELSE st
         IN  forEachClass(classes, k + 1, next, perm, bp, at)

\* checkSchedule of an instance whose state permission is perm
checkSchedule(st, perm, bp, at) ==
    IF perm # "granted" THEN st
    ELSE forEachClass(TodayClasses, 1, st, perm, bp, at)

Storage == [ notified |-> notified, notifications |-> notifications ]

\* Time passes, to the next clock point or to the next day of these classes.
AdvanceClock ==
    /\ IF clock.tod + 1 < DayLen THEN clock' = [clock EXCEPT !.tod = @ + 1]
       ELSE /\ clock.day < MaxDays
            /\ clock' = [day |-> clock.day + 1, tod |-> 0]
    /\ checks' = 0
    /\ UNCHANGED <<now, dateVars, sheetVars, scoreVars, rowVars, calls, gradesVars,
                   chatVars, browserPermission, manager, notified, notifications>>

\* The interval timer fires.
TimerTick ==
    /\ checks < MaxChecks
    /\ LET st == checkSchedule(Storage, manager.permission, browserPermission, clock)
       IN  notified' = st.notified /\ notifications' = st.notifications
    /\ checks' = checks + 1
    /\ UNCHANGED <<now, dateVars, sheetVars, scoreVars, rowVars, calls, gradesVars,
                   chatVars, clock, browserPermission, manager>>

\* The user answers the prompt, or dismisses it: requestPermission resolves
\* and setPermission stores the answer; when the permission has changed, the
\* effect of checkSchedule runs again and checks the schedule at once.
AnswerPrompt ==
    /\ manager.asked
    /\ \E answer \in Permissions :
         /\ browserPermission' = answer
         /\ manager' = [manager EXCEPT !.permission = answer, !.asked = FALSE]
         /\ LET st == IF answer = manager.permission THEN Storage
                      ELSE checkSchedule(Storage, answer, answer, clock)
            IN  notified' = st.notified /\ notifications' = st.notifications
    /\ UNCHANGED <<now, dateVars, sheetVars, scoreVars, rowVars, calls, gradesVars,
                   chatVars, clock, checks>>

\* NotificationManager is mounted again: the interval of the old instance is
\* cleared, the new one reads Notification.permission and checks the schedule.
Remount ==
    /\ checks < MaxChecks
    /\ manager.inst < MaxMounts
    /\ manager' = mountManager(manager.inst + 1, browserPermission)
    /\ LET st == checkSchedule(Storage, browserPermission, browserPermission, clock)
       IN  notified' = st.notified /\ notifications' = st.notifications
    /\ checks' = checks + 1
    /\ UNCHANGED <<now, dateVars, sheetVars, scoreVars, rowVars, calls, gradesVars,
                   chatVars, clock, browserPermission>>

\* NotificationManager has been mounted, before the window of any class.
InitNotif ==
    /\ now = FirstYear
    /\ dateStr = <<>>
    /\ dateRuns = <<>>
    /\ lines = <<>>
    /\ edit = NoEdit
    /\ parseRuns = <<>>
    /\ scoreCell = <<>>
    /\ scoreRuns = <<>>
    /\ rowArg = <<>>
    /\ rowRuns = <<>>
    /\ calls = <<>>
    /\ GradesIdle
    /\ ChatIdle
    /\ clock = [day |-> 1, tod |-> 0]
    /\ browserPermission \in Permissions
    /\ manager = mountManager(1, browserPermission)
    /\ notified = {}
    /\ notifications = <<>>
    /\ checks = 1

NextNotif == AdvanceClock \/ TimerTick \/ AnswerPrompt \/ Remount

SpecNotif == InitNotif /\ [][NextNotif]_vars

-----------------------------------------------------------------------------
(* Properties of normalizeDate (checked under SpecDate) *)

\* The expected results are written out here without the operators of the
\* model of normalizeDate.
ZeroPadded(x) == IF Len(x) = 1 THEN <<"0", x[1]>> ELSE x

Canonical(y, m, d) == y \o <<"-">> \o ZeroPadded(m) \o <<"-">> \o ZeroPadded(d)

FourDigits(n) ==
    << DigitChar(n \div 1000), DigitChar((n \div 100) % 10),
       DigitChar((n \div 10) % 10), DigitChar(n % 10) >>

\* The string without its leading and trailing white space
Stripped(s) ==
    LET idx == { k \in 1..Len(s) : s[k] \notin WhiteSpace }
    IN  IF idx = {} THEN <<>>
        ELSE SubSeq(s, CHOOSE k \in idx : \A j \in idx : k <= j,
                       CHOOSE k \in idx : \A j \in idx : k >= j)

IsBlank(s) == \A k \in 1..Len(s) : s[k] \in WhiteSpace

\* The string is no day-month date of the three recognised layouts
NoDatePattern(s) ==
    \A n \in {4, 2, 0} : DateMatch(Stripped(s), n) = {}

Str_5_9_2024 == <<"5", ".", "9", ".", "2", "0", "2", "4">>
Str_5_9_24 == <<"5", ".", "9", ".", "2", "4">>
Str_5_9 == <<"5", ".", "9">>
Str_2024_09_05 == <<"2", "0", "2", "4", "-", "0", "9", "-", "0", "5">>
Str_garbage == <<"g", "a", "r", "b", "a", "g", "e">>

\* C8: normalizeDate maps D.M.YYYY and D/M/YYYY to YYYY-MM-DD with month
\* and day zero-padded, D.M.YY to the same form with the year prefixed by
\* 20, and D.M to the same form with the calendar year current at the call;
\* '5.9.2024', '5.9.24' and (in 2024) '5.9' all give '2024-09-05'.
C8_DateForms ==
    \A k \in 1..Len(dateRuns) :
      LET r == dateRuns[k]
      IN  /\ \A d \in Days, m \in Months, s1 \in DateSeps, s2 \in DateSeps :
               /\ \A y \in Years4 :
                    r.arg = d \o <<s1>> \o m \o <<s2>> \o y
                      => r.ret = Canonical(y, m, d)
               /\ \A y \in Years2 :
                    r.arg = d \o <<s1>> \o m \o <<s2>> \o y
                      => r.ret = Canonical(<<"2", "0">> \o y, m, d)
               /\ r.arg = d \o <<s1>> \o m
                      => r.ret = Canonical(FourDigits(r.year), m, d)
          /\ r.arg \in {Str_5_9_2024, Str_5_9_24} => r.ret = Str_2024_09_05
          /\ r.arg = Str_5_9 /\ r.year = 2024 => r.ret = Str_2024_09_05

\* A year-less date has been normalised with the year of the call.
C8_Witness ==
    \E k \in 1..Len(dateRuns) :
      /\ dateRuns[k].arg = <<"3", "1", "/", "1", "2">>
      /\ dateRuns[k].ret = FourDigits(dateRuns[k].year) \o <<"-", "1", "2", "-", "3", "1">>

C10_Idempotent ==
    Len(dateRuns) = 2 /\ dateRuns[1].year = dateRuns[2].year
      => /\ dateRuns[2].arg = dateRuns[1].ret
         /\ dateRuns[2].ret = dateRuns[1].ret

\* A year-less date has gone through both calls in one year.
C10_Witness ==
    /\ Len(dateRuns) = 2
    /\ dateRuns[1].year = dateRuns[2].year
    /\ dateRuns[1].arg = Str_5_9
    /\ dateRuns[2].ret # Str_5_9

-----------------------------------------------------------------------------
(* Properties of parseBlockBasedPivotData (checked under Spec) *)

\* The table a parse works on, in the terms of the specification: rows, cells,
\* blocks at the fixed offsets.  Rows, blocks and columns count from 0.
TableOf(run) == rowsOf(run.text)

CellsOf(rows, r) == parseCsvRow(rows[r + 1])

StartOf(b) == subjectBlockStartRows[b + 1]

EndOf(rows, b) ==
    IF b + 1 < Len(subjectBlockStartRows) /\ subjectBlockStartRows[b + 2] < Len(rows)
    THEN subjectBlockStartRows[b + 2]
    ELSE Len(rows)

BlocksOf(rows) ==
    { b \in 0..(Len(subjectBlockStartRows) - 1) : StartOf(b) < Len(rows) }

SubjectOf(rows, b) == cellAt(CellsOf(rows, StartOf(b)), 0)

\* The score positions <<block, data row, column>> of a table
PositionsOf(rows) ==
    UNION { UNION { { <<b, r, i>> : i \in 3..(Len(CellsOf(rows, r)) - 1) } :
                      r \in (StartOf(b) + 2)..(EndOf(rows, b) - 1) } :
              b \in BlocksOf(rows) }

ScoreAt(rows, p) == classifyScore(removeQuotes(cellAt(CellsOf(rows, p[2]), p[3])))

HeaderDateAt(rows, p) == cellAt(CellsOf(rows, StartOf(p[1])), p[3])

\* The positions that have a record: subject, user id and aligned date are
\* not blank and the cell is a score
Qualifies(rows, p) ==
    /\ SubjectOf(rows, p[1]) # <<>>
    /\ cellAt(CellsOf(rows, p[2]), 0) # <<>>
    /\ ScoreAt(rows, p).tag # "none"
    /\ HeaderDateAt(rows, p) # <<>>

RecordAt(rows, p, year) ==
    LET topicCell == cellAt(CellsOf(rows, StartOf(p[1]) + 1), p[3])
    IN  [ user_id |-> cellAt(CellsOf(rows, p[2]), 0),
          user_name |-> cellAt(CellsOf(rows, p[2]), 1),
          subject |-> SubjectOf(rows, p[1]),
          topic |-> IF topicCell = <<>> THEN TopicPlaceholder ELSE topicCell,
          date |-> normalizeDate(HeaderDateAt(rows, p), year),
          score |-> ScoreAt(rows, p) ]

Occurrences(seq, x) == Cardinality({ k \in 1..Len(seq) : seq[k] = x })

\* The list holds one record for every position of pos, and nothing else.
OneRecordPerPosition(grades, rows, year, pos) ==
    /\ Len(grades) = Cardinality(pos)
    /\ \A p \in pos :
         Occurrences(grades, RecordAt(rows, p, year))
           = Cardinality({ q \in pos : RecordAt(rows, q, year) = RecordAt(rows, p, year) })

ExampleText == csvTextOf(<<StdHeader, StdTopic, StdData>>)

ExampleRecord ==
    [ user_id |-> u1, user_name |-> Alice, subject |-> Math, topic |-> Midterm,
      date |-> <<"2", "0", "2", "4", "-", "0", "9", "-", "0", "5">>,
      score |-> NumberScore(<<5, 0>>) ]

\* C1: the parse emits exactly one record for every (block, data row, column
\* i >= 3) whose block has a subject, whose row has a user id, whose cell is a
\* numeric, pass or absence score and whose header cell at i is not blank, and
\* no other record; the record carries the subject, user id, user name,
\* normalised header date, topic (or the placeholder) and classified score.
\* The three-line example gives exactly the one record of u1.
C1_OneRecordPerScore ==
    \A n \in 1..Len(parseRuns) :
      LET run == parseRuns[n]
          rows == TableOf(run)
      IN  /\ OneRecordPerPosition(run.grades, rows, run.year,
                                  { p \in PositionsOf(rows) : Qualifies(rows, p) })
          /\ run.text = ExampleText => run.grades = <<ExampleRecord>>

\* C2: every parse runs to completion and returns a record list, whatever
\* the rows of the text are.
C2_ParseReturns ==
    \A n \in 1..Len(parseRuns) : parseRuns[n].outcome = "returned"

\* The positions a change of the sheet takes the records of: the block of a
\* blanked subject, the column of a blanked date, the row of a blanked user
\* id, the cell of a replaced score
BlockOfRow(r) ==
    CHOOSE b \in 0..(Len(subjectBlockStartRows) - 1) :
      /\ StartOf(b) <= r
      /\ b + 1 < Len(subjectBlockStartRows) => r < StartOf(b + 1)

InUnit(p, e) ==
    CASE e.kind = "subject" -> p[1] = BlockOfRow(e.at)
      [] e.kind = "date" -> p[1] = BlockOfRow(e.at) /\ p[3] = e.col
      [] e.kind = "userid" -> p[2] = e.at
      [] e.kind = "score" -> p[2] = e.at /\ p[3] = e.col
      [] OTHER -> FALSE

\* C4: after one score cell is replaced by text that is no score, one header
\* date is blanked, one user id is blanked or one subject name is blanked, the
\* parse emits the records of the table as it was, less those of that cell,
\* column, row or block: every other record is emitted unchanged.
C4_SmallestUnitOmitted ==
    Len(parseRuns) = 2 =>
      LET before == TableOf(parseRuns[1])
      IN  OneRecordPerPosition(parseRuns[2].grades, before, parseRuns[2].year,
            { p \in PositionsOf(before) : Qualifies(before, p) /\ ~InUnit(p, edit) })

\* C5: a block whose header row has a blank first cell contributes no
\* record, its rows are counted to no other block, and the blocks at the other
\* offsets still have their records emitted.
C5_BlankSubjectBlockSkipped ==
    \A n \in 1..Len(parseRuns) :
      LET run == parseRuns[n]
          rows == TableOf(run)
          blank == { b \in BlocksOf(rows) : SubjectOf(rows, b) = <<>> }
      IN  blank # {} =>
            OneRecordPerPosition(run.grades, rows, run.year,
              { p \in PositionsOf(rows) : p[1] \notin blank /\ Qualifies(rows, p) })

\* C6: a data row whose first cell is blank yields no record, however many
\* score cells it has: every record has a user id, and there are no more
\* records than score cells in rows that have one.
C6_UserIdRequired ==
    \A n \in 1..Len(parseRuns) :
      LET run == parseRuns[n]
          rows == TableOf(run)
      IN  /\ \A k \in 1..Len(run.grades) : ~IsBlank(run.grades[k].user_id)
          /\ Len(run.grades)
               <= Cardinality({ p \in PositionsOf(rows) :
                                  cellAt(CellsOf(rows, p[2]), 0) # <<>> })

\* A parse has returned on a table where a row without user id holds a score
\* under a dated column of a block with a subject.
C6_Witness ==
    \E n \in 1..Len(parseRuns) :
      /\ parseRuns[n].outcome = "returned"
      /\ \E p \in PositionsOf(TableOf(parseRuns[n])) :
           /\ cellAt(CellsOf(TableOf(parseRuns[n]), p[2]), 0) = <<>>
           /\ Len(CellsOf(TableOf(parseRuns[n]), p[2])) > 4
           /\ SubjectOf(TableOf(parseRuns[n]), p[1]) # <<>>
           /\ HeaderDateAt(TableOf(parseRuns[n]), p) # <<>>
           /\ ScoreAt(TableOf(parseRuns[n]), p).tag = "number"

\* C7: no record without a date is emitted: every record has a date, and
\* there are no more records than score cells under a header cell that is
\* present and not blank.
C7_DateRequired ==
    \A n \in 1..Len(parseRuns) :
      LET run == parseRuns[n]
          rows == TableOf(run)
      IN  /\ \A k \in 1..Len(run.grades) : ~IsBlank(run.grades[k].date)
          /\ Len(run.grades)
               <= Cardinality({ p \in PositionsOf(rows) : HeaderDateAt(rows, p) # <<>> })

\* A parse has returned on a table where a score of a row with a user id
\* stands in a column the shorter header row does not have.
C7_Witness ==
    \E n \in 1..Len(parseRuns) :
      /\ parseRuns[n].outcome = "returned"
      /\ \E p \in PositionsOf(TableOf(parseRuns[n])) :
           /\ cellAt(CellsOf(TableOf(parseRuns[n]), p[2]), 0) # <<>>
           /\ SubjectOf(TableOf(parseRuns[n]), p[1]) # <<>>
           /\ ScoreAt(TableOf(parseRuns[n]), p).tag = "number"
           /\ p[3] >= Len(CellsOf(TableOf(parseRuns[n]), StartOf(p[1])))

-----------------------------------------------------------------------------
(* Properties of the score classification (checked under SpecScore) *)

NumericValue(v) ==
    CASE v = <<"5">> -> <<5, 0>>
      [] v = <<"0">> -> <<0, 0>>
      [] v = <<"0", "5">> -> <<5, 0>>
      [] v = <<"1", "0", "0">> -> <<100, 0>>
      [] v = <<"4", ".", "5">> -> <<45, 1>>
      [] v = <<"5", ".", "0">> -> <<5, 0>>
      [] v = <<".", "5">> -> <<5, 1>>
      [] v = <<"5", ".">> -> <<5, 0>>
      [] v = <<"-", "1">> -> <<0 - 1, 0>>
      [] v = <<"+", "7">> -> <<7, 0>>

\* C3: the score cell, as it is classified, becomes the absence marker when
\* it equals the absence token in either case; otherwise the numeric score
\* when it is a finite number; otherwise the pass marker when it contains the
\* pass token in any case; otherwise it is discarded.  '5' gives 5, the
\* absence token in upper or lower case gives absence, the pass token gives
\* pass, 'xyz' gives no record.
C3_ScorePrecedence ==
    \A n \in 1..Len(scoreRuns) :
      LET v == scoreRuns[n].scoreStr
          out == scoreRuns[n].score
      IN  /\ v \in AbsenceCells => out = StringScore(AbsenceToken)
          /\ v \in NumericCells => out = NumberScore(NumericValue(v))
          /\ v \in PassCells => out = StringScore(PassToken)
          /\ v \in JunkCells \cup {<<>>} => out = NoScore
          /\ v = <<"5">> => out = NumberScore(<<5, 0>>)
          /\ v = PassToken => out = StringScore(PassToken)
          /\ v = <<"x", "y", "z">> => out.tag = "none"

\* The upper-case absence token has been classified as absence.
C3_Witness ==
    \E n \in 1..Len(scoreRuns) :
      /\ scoreRuns[n].scoreStr = <<"CYR_N">>
      /\ scoreRuns[n].score = StringScore(AbsenceToken)

-----------------------------------------------------------------------------
(* Properties of the emitted records (checked under SpecBlocks) *)

\* Four digits, '-', two digits, '-', two digits
IsoShaped(s) ==
    /\ Len(s) = 10
    /\ \A k \in {1, 2, 3, 4, 6, 7, 9, 10} : s[k] \in Digits
    /\ s[5] = "-"
    /\ s[8] = "-"

\* The header cells a record of the subject can be aligned with
HeaderCellsOf(rows, subject) ==
    { HeaderDateAt(rows, <<b, 0, i>>) :
        b \in { c \in BlocksOf(rows) : SubjectOf(rows, c) = subject },
        i \in 3..5 }

-----------------------------------------------------------------------------
(* Properties of repeated parses (checked under SpecReparse) *)

\* The date has the day.month layout without a year
YearLess(h) == DateMatch(Stripped(h), 0) # {}

SameButDate(g, h) == [g EXCEPT !.date = <<>>] = [h EXCEPT !.date = <<>>]

\* C12 as stated: two parses of the same text, made at any two times, give
\* lists of the same length with equal records at equal places.
C12_Original ==
    \A i \in 1..Len(parseRuns), j \in 1..Len(parseRuns) :
      parseRuns[i].text = parseRuns[j].text
        => /\ parseRuns[i].outcome = parseRuns[j].outcome
           /\ Len(parseRuns[i].grades) = Len(parseRuns[j].grades)
           /\ \A k \in 1..Len(parseRuns[i].grades) :
                parseRuns[i].grades[k] = parseRuns[j].grades[k]

\* C12, amended: two parses of the same text give lists of the same length
\* whose records at equal places are equal, except that the date of a record
\* under a header date without a year begins with the calendar year of its
\* parse; two parses in one calendar year give equal lists.
C12_SameUpToClockYear ==
    \A i \in 1..Len(parseRuns), j \in 1..Len(parseRuns) :
      LET a == parseRuns[i]
          b == parseRuns[j]
      IN  a.text = b.text
            => /\ a.outcome = b.outcome
               /\ Len(a.grades) = Len(b.grades)
               /\ a.year = b.year => a.grades = b.grades
               /\ \A k \in 1..Len(a.grades) :
                    /\ SameButDate(a.grades[k], b.grades[k])
                    /\ \/ a.grades[k].date = b.grades[k].date
                       \/ /\ \E h \in HeaderCellsOf(TableOf(a), a.grades[k].subject) :
                               YearLess(h)
                          /\ a.grades[k].date
                               = FourDigits(a.year) \o SubSeq(a.grades[k].date, 5, 10)
                          /\ b.grades[k].date
                               = FourDigits(b.year) \o SubSeq(a.grades[k].date, 5, 10)

\* The same text, with a header date without a year, has been parsed in two
\* calendar years and has given records with different dates.
C12_Witness ==
    /\ Len(parseRuns) = 2
    /\ parseRuns[1].text = parseRuns[2].text
    /\ parseRuns[1].year # parseRuns[2].year
    /\ parseRuns[1].grades # <<>>
    /\ parseRuns[1].grades[1].date # parseRuns[2].grades[1].date
    /\ lines[1] = PhysYearLess

-----------------------------------------------------------------------------
(* Properties of parseCsvRow (checked under SpecRow) *)

Row_a_bc_d == <<"a", ",", Quote, "b", ",", "c", Quote, ",", "d">>
Row_a_bqc_d == <<"a", ",", Quote, "b", Quote, Quote, "c", Quote, ",", "d">>

\* C13: a comma inside a quoted field does not split the field and a doubled
\* quote inside a quoted field is one quote character of the value; the
\* quote characters that open and close a field are not part of the value.
\* a,"b,c",d gives [a | b,c | d] and a,"b""c",d gives [a | b"c | d].
C13_QuoteAware ==
    \A n \in 1..Len(rowRuns) :
      LET run == rowRuns[n]
      IN  /\ run.cells # <<>> =>
               /\ Len(run.values) = Len(run.cells)
               /\ \A k \in 1..Len(run.cells) :
                    run.values[k] = Stripped(run.cells[k].value)
          /\ run.row = Row_a_bc_d
               => run.values = << <<"a">>, <<"b", ",", "c">>, <<"d">> >>
          /\ run.row = Row_a_bqc_d
               => run.values = << <<"a">>, <<"b", Quote, "c">>, <<"d">> >>

\* A row of three cells, one with a doubled quote and one with a comma
\* between quotes, has been parsed.
C13_Witness ==
    /\ rowRuns # <<>>
    /\ rowRuns[1].row = <<"a", ",", Quote, "b", Quote, Quote, "c", Quote, ",",
                          Quote, "b", ",", "c", Quote>>
    /\ Len(rowRuns[1].values) = 3

\* The commas of the row that are outside quoted sections: those with an
\* even number of quote characters before them
OuterCommas(row) ==
    { k \in 1..Len(row) :
        /\ row[k] = ","
        /\ Cardinality({ j \in 1..(k - 1) : row[j] = Quote }) % 2 = 0 }

\* C14: parseCsvRow returns one field more than the row has commas outside
\* quoted sections (one empty field for an empty row), and no field begins
\* or ends with white space.
C14_FieldCountAndTrim ==
    \A n \in 1..Len(rowRuns) :
      LET run == rowRuns[n]
      IN  /\ Len(run.values) = Cardinality(OuterCommas(run.row)) + 1
          /\ \A k \in 1..Len(run.values) :
               LET v == run.values[k]
               IN  v # <<>> => v[1] \notin WhiteSpace /\ v[Len(v)] \notin WhiteSpace
          /\ run.row = <<>> => run.values = << <<>> >>

\* A row with a comma between quotes, a comma outside and white space around
\* its last cell has been parsed.
C14_Witness ==
    /\ rowRuns # <<>>
    /\ rowRuns[1].row = <<Quote, "b", ",", "c", Quote, ",", " ", "d", " ">>
    /\ rowRuns[1].values = << <<"b", ",", "c">>, <<"d">> >>

-----------------------------------------------------------------------------
(* Properties of the block geometry (checked under SpecBlocks) *)

TopicLikeData == Line(<<u3, Eve, <<>>, <<"4">>, <<"5">>, <<"3">>>>)

\* The rows a block at offset index b (0-based) takes its records from:
\* from two rows below its offset up to the next offset, or up to the end of
\* the table for the last offset
DataRowsOfBlock(rows, b) ==
    { r \in 0..(Len(rows) - 1) :
        /\ r >= StartOf(b) + 2
        /\ b + 1 < Len(subjectBlockStartRows) => r < StartOf(b + 1) }

GeometryPositions(rows) ==
    { p \in UNION { UNION { { <<b, r, i>> : i \in 3..(Len(CellsOf(rows, r)) - 1) } :
                             r \in DataRowsOfBlock(rows, b) } :
                     b \in { c \in 0..(Len(subjectBlockStartRows) - 1) :
                               StartOf(c) < Len(rows) } } :
        Qualifies(rows, p) }

\* C15: the blocks are fixed by the offsets 0, 18, 36, 54, 72 alone: a block
\* exists only when its offset is less than the row count, and every record
\* of a block comes from a row between two rows below its offset and the
\* next offset (the end of the table for the last offset); header rows and
\* topic rows give no record, whatever they contain.
C15_BlockGeometry ==
    \A n \in 1..Len(parseRuns) :
      LET run == parseRuns[n]
          rows == TableOf(run)
          pos == GeometryPositions(rows)
      IN  \A k \in 1..Len(run.grades) :
            Occurrences(run.grades, run.grades[k])
              <= Cardinality({ p \in pos : RecordAt(rows, p, run.year) = run.grades[k] })

\* A sheet of five blocks, with a topic row that reads like a data row and a
\* data row one block height below the last offset, has been parsed and has
\* given the records of the five blocks and of the last row.
C15_Witness ==
    /\ Len(parseRuns) = 1
    /\ Len(TableOf(parseRuns[1]))
         = subjectBlockStartRows[Len(subjectBlockStartRows)] + BlockHeight + 1
    /\ lines[2] = TopicLikeData
    /\ Len(parseRuns[1].grades) = Len(subjectBlockStartRows) + 1

-----------------------------------------------------------------------------
(* Properties of getGrades (checked under SpecFetch) *)

\* C16: an invocation of getGrades whose fetch rejects or whose response is
\* not successful ends in one thrown failure and returns no list; an
\* invocation whose fetch succeeds returns the complete result of the parse
\* of the response text and throws nothing.
C16_FailOrReturn ==
    \A i \in 1..Len(calls) :
      LET c == calls[i]
          rows == rowsOf(c.text)
      IN  c.pc = "done" =>
            /\ c.net \in {"rejected", "notok"}
                 => c.outcome = "threw" /\ c.grades = <<>>
            /\ c.net = "ok"
                 => /\ c.outcome = "returned"
                    /\ OneRecordPerPosition(c.grades, rows, c.year,
                         { p \in PositionsOf(rows) : Qualifies(rows, p) })

-----------------------------------------------------------------------------
(* Properties of the text handling (checked under SpecReparse) *)

\* t2 is t1 with a carriage return put before every line feed
CrlfOf(t2, t1) ==
    /\ SelectSeq(t2, LAMBDA c : c # "CR") = t1
    /\ \A k \in 1..Len(t2) :
         /\ t2[k] = "LF" => k > 1 /\ t2[k - 1] = "CR"
         /\ t2[k] = "CR" => k < Len(t2) /\ t2[k + 1] = "LF"

\* t2 is t1 after a byte-order mark, or with CR LF for LF, or both
BomOrCrlfOf(t2, t1) ==
    \/ t2 = <<"BOM">> \o t1
    \/ CrlfOf(t2, t1)
    \/ t2 # <<>> /\ t2[1] = "BOM" /\ CrlfOf(Tail(t2), t1)

\* C17: the result of a parse does not depend on a leading byte-order mark
\* nor on the row separator: the text after a BOM parses as the text itself,
\* and the text with CR LF separators as the text with LF separators.
C17_BomAndLineEnds ==
    \A i \in 1..Len(parseRuns), j \in 1..Len(parseRuns) :
      LET a == parseRuns[i]
          b == parseRuns[j]
      IN  a.year = b.year /\ BomOrCrlfOf(b.text, a.text)
            => a.outcome = b.outcome /\ a.grades = b.grades

\* A text of several rows has been parsed with LF separators, and in the same
\* year after a byte-order mark with CR LF separators; records were returned.
C17_Witness ==
    /\ Len(parseRuns) = 2
    /\ parseRuns[1].year = parseRuns[2].year
    /\ parseRuns[1].text = csvTextOf(lines)
    /\ parseRuns[2].text = <<"BOM">> \o joinLines(lines, <<"CR", "LF">>)
    /\ Len(lines) > BlockHeight
    /\ parseRuns[2].grades # <<>>

\* The rows of a text as delivered: one more than it has line feeds
RawRowCount(t) == Cardinality({ k \in 1..Len(t) : t[k] = "LF" }) + 1

\* C18: a text of fewer than 3 rows, the empty text included, is taken as an
\* empty table: the parse returns the empty list and raises nothing.
C18_ShortTextIsEmpty ==
    \A n \in 1..Len(parseRuns) :
      RawRowCount(parseRuns[n].text) < 3
        => parseRuns[n].outcome = "returned" /\ parseRuns[n].grades = <<>>

\* A text of one row, a block header with a subject, has been parsed as it is
\* and after a byte-order mark, and both parses have returned.
C18_Witness ==
    /\ lines = <<StdHeader>>
    /\ Len(parseRuns) = 2
    /\ parseRuns[1].text = StdHeader
    /\ parseRuns[2].text = <<"BOM">> \o StdHeader
    /\ parseRuns[2].outcome = "returned"

-----------------------------------------------------------------------------
(* Properties of the emitted scores (checked under SpecBlocks) *)

\* The number a cell of the sheets stands for, written out cell by cell;
\* <<m, k>> is m / 10^k
CellNumber(cell) ==
    CASE cell = <<"5">> -> <<5, 0>>
      [] cell = <<"4">> -> <<4, 0>>
      [] cell = <<"3">> -> <<3, 0>>
      [] cell = <<"1", "5", "0">> -> <<150, 0>>
      [] cell = <<"-", "1">> -> <<0 - 1, 0>>
      [] cell = <<"0", ".", "5">> -> <<5, 1>>
      [] OTHER -> <<>>

\* C20: the score of every emitted record is a finite number equal to the
\* numeric value of its cell, not clamped to the range 0-100, or the pass
\* marker, or the absence marker.
C20_ScoreKinds ==
    \A n \in 1..Len(parseRuns) :
      LET run == parseRuns[n]
          rows == TableOf(run)
      IN  \A k \in 1..Len(run.grades) :
            LET g == run.grades[k]
            IN  \/ g.score = StringScore(PassToken)
                \/ g.score = StringScore(AbsenceToken)
                \/ /\ g.score.tag = "number"
                   /\ g.score.str = <<>>
                   /\ \E p \in PositionsOf(rows) :
                        /\ [RecordAt(rows, p, run.year) EXCEPT !.score = g.score] = g
                        /\ CellNumber(cellAt(CellsOf(rows, p[2]), p[3])) = g.score.num

\* A parse has emitted the score 150, above the range 0-100, and the score 5.
C20_Witness ==
    \E n \in 1..Len(parseRuns) :
      /\ \E k \in 1..Len(parseRuns[n].grades) :
           parseRuns[n].grades[k].score = NumberScore(<<150, 0>>)
      /\ \E k \in 1..Len(parseRuns[n].grades) :
           parseRuns[n].grades[k].score = NumberScore(<<5, 0>>)

-----------------------------------------------------------------------------
(* Properties of the quote handling of score cells (checked under SpecScore) *)

\* The cell without the quote characters that wrap it
Unwrapped(c) ==
    LET t == Stripped(c)
    IN  IF Len(t) >= 2 /\ t[1] = Quote /\ t[Len(t)] = Quote
        THEN SubSeq(t, 2, Len(t) - 1)
        ELSE t

HasInteriorQuote(c) == \E k \in 1..Len(Unwrapped(c)) : Unwrapped(c)[k] = Quote

\* C21: only the quote characters that wrap the score cell are stripped
\* before the classification; a cell with a quote character inside is
\* classified as the value that still holds that quote character.
C21_InteriorQuoteKept ==
    \A n \in 1..Len(scoreRuns) :
      LET run == scoreRuns[n]
      IN  HasInteriorQuote(run.cell)
            => /\ run.scoreStr = Unwrapped(run.cell)
               /\ run.score = classifyScore(Unwrapped(run.cell))

-----------------------------------------------------------------------------
(* Properties of the scan of a data row (checked under SpecReparse) *)

\* C22: only the columns from 3 on are scanned: every record comes from a
\* cell at a column of index 3 or more, and the cells of columns 0, 1 and 2
\* give no record, also when they hold a score under a header date.
C22_FirstColumnsNotScanned ==
    \A n \in 1..Len(parseRuns) :
      LET run == parseRuns[n]
          rows == TableOf(run)
      IN  /\ \A k \in 1..Len(run.grades) :
               \E b \in BlocksOf(rows) :
                 \E r \in (StartOf(b) + 2)..(Len(rows) - 1) :
                   \E i \in 3..(Len(CellsOf(rows, r)) - 1) :
                     /\ run.grades[k].user_id = cellAt(CellsOf(rows, r), 0)
                     /\ run.grades[k].score = ScoreAt(rows, <<b, r, i>>)
                     /\ run.grades[k].date
                          = normalizeDate(HeaderDateAt(rows, <<b, r, i>>), run.year)
          /\ rows = <<DatedFromColumn1, StdTopic, ScoresFromColumn0>>
               => Len(run.grades) = 1

\* The sheet with dates in the columns 1 to 3 of its header and scores in the
\* columns 0 to 3 of its data row has been parsed and has given one record.
C22_Witness ==
    /\ lines = <<DatedFromColumn1, StdTopic, ScoresFromColumn0>>
    /\ Len(parseRuns) >= 1
    /\ Len(parseRuns[1].grades) = 1
    /\ parseRuns[1].grades[1].date = <<"2", "0", "2", "4", "-", "0", "9", "-", "0", "7">>

\* The position p comes before q in the layout: an earlier block, or an
\* earlier row of the block, or a later column of the row
Precedes(p, q) ==
    \/ p[1] < q[1]
    \/ p[1] = q[1] /\ p[2] < q[2]
    \/ p[1] = q[1] /\ p[2] = q[2] /\ p[3] > q[3]

\* C23: the records are emitted block by block in ascending order of the
\* offsets, row by row in table order within a block, and within one data
\* row in strictly decreasing column index, the last column first.
C23_EmissionOrder ==
    \A n \in 1..Len(parseRuns) :
      LET run == parseRuns[n]
          rows == TableOf(run)
          pos == { p \in PositionsOf(rows) : Qualifies(rows, p) }
      IN  run.outcome = "returned" =>
            /\ Len(run.grades) = Cardinality(pos)
            /\ \A p \in pos :
                 run.grades[Cardinality({ q \in pos : Precedes(q, p) }) + 1]
                   = RecordAt(rows, p, run.year)

\* The sheet of two blocks, with two data rows of two scores in the first,
\* has been parsed: the first record is that of the last column of the first
\* data row, the last record that of the first score column of the second
\* block.
C23_Witness ==
    /\ lines = OrderSheet
    /\ Len(parseRuns) >= 1
    /\ Len(parseRuns[1].grades) = 6
    /\ parseRuns[1].grades[1].score = NumberScore(<<4, 0>>)
    /\ parseRuns[1].grades[2].score = NumberScore(<<5, 0>>)
    /\ parseRuns[1].grades[3].score = StringScore(AbsenceToken)
    /\ parseRuns[1].grades[6].score = StringScore(PassToken)

\* The rows of the text as it is delivered, without a byte-order mark
DeliveredRows(text) ==
    splitRows(IF text # <<>> /\ text[1] = "BOM" THEN Tail(text) ELSE text)

\* C28: the block offsets index the rows of the text as delivered, after the
\* removal of the byte-order mark only: every record of block k has the
\* subject of line offset_k of that text and comes from a row below it, also
\* when the text begins with blank lines.
C28_OffsetsIndexDeliveredRows ==
    \A n \in 1..Len(parseRuns) :
      LET run == parseRuns[n]
          raw == DeliveredRows(run.text)
      IN  \A k \in 1..Len(run.grades) :
            \E p \in PositionsOf(raw) :
              /\ Qualifies(raw, p)
              /\ RecordAt(raw, p, run.year) = run.grades[k]

-----------------------------------------------------------------------------
(* Properties of the Grades view (checked under SpecGrades and, for the    *)
(* liveness of loadGrades, under SpecGradesFair)                           *)

\* The invocations of loadGrades made by the instance on display
OwnLoads == { l \in 1..Len(loads) : loads[l].inst = view.inst }

\* The latest of them
LatestLoad == CHOOSE l \in OwnLoads : \A m \in OwnLoads : m <= l

\* The records of the list gs that carry the user id, in the order of gs
RECURSIVE RecordsOfUser(_, _)
RecordsOfUser(gs, id) ==
    IF gs = <<>> THEN <<>>
    ELSE (IF Head(gs).user_id = id THEN <<Head(gs)>> ELSE <<>>)
           \o RecordsOfUser(Tail(gs), id)

IsDemoRecord(g) == \E k \in 1..Len(GRADES_DATA) : GRADES_DATA[k] = g

\* C24: when getGrades throws during loadGrades, the view ends with
\* isLoading = false, an error message and, as userGrades, the demonstration
\* records of the current user; the list on display is never a mix of fetched
\* and demonstration records.
C24_FailedFetchFallsBack ==
    /\ view.mounted /\ OwnLoads # {} /\ loads[LatestLoad].path = "failed"
         => /\ view.isLoading = FALSE
            /\ view.error # NoError
            /\ view.userGrades = RecordsOfUser(GRADES_DATA, NumToStr(tgUser))
    /\ \A i, j \in 1..Len(view.userGrades) :
         IsDemoRecord(view.userGrades[i]) <=> IsDemoRecord(view.userGrades[j])

\* The instance on display has loaded twice: records were fetched, then the
\* refresh failed and the demonstration records are on display.
C24_Witness ==
    /\ view.mounted
    /\ Len(loads) = 2
    /\ loads[1].inst = view.inst
    /\ loads[1].path = "ok"
    /\ RecordsOfUser(calls[loads[1].call].grades, NumToStr(tgUser)) # <<>>
    /\ loads[2].inst = view.inst
    /\ loads[2].path = "failed"
    /\ Len(view.userGrades) = 2

\* C25: after loadGrades completes successfully, userGrades is exactly the
\* records of that fetch with the user id of the current Telegram user, in
\* the order of the fetch, without any record of an earlier fetch or of the
\* demonstration data, and error is null.
C25_SuccessReplacesList ==
    view.mounted /\ OwnLoads # {} /\ loads[LatestLoad].path = "ok"
      => /\ view.userGrades
              = RecordsOfUser(calls[loads[LatestLoad].call].grades, NumToStr(tgUser))
         /\ view.error = NoError

\* The instance on display has loaded twice with success, from two sheets:
\* the two records of the second fetch are on display, the last column first.
C25_Witness ==
    /\ view.mounted
    /\ Len(loads) = 2
    /\ loads[1].inst = view.inst
    /\ loads[1].path = "ok"
    /\ RecordsOfUser(calls[loads[1].call].grades, NumToStr(tgUser)) # <<>>
    /\ loads[2].inst = view.inst
    /\ loads[2].path = "ok"
    /\ calls[loads[2].call].text # calls[loads[1].call].text
    /\ Len(calls[loads[2].call].grades) = 3
    /\ Len(view.userGrades) = 2
    /\ view.userGrades[1].score = StringScore(AbsenceToken)
    /\ view.userGrades[2].score = NumberScore(<<3, 0>>)

\* The getGrades requests in flight
InFlight == { c \in 1..Len(calls) : calls[c].pc # "done" }

\* C26: grade loading is single-flight: at most one getGrades request is in
\* flight at any time, over any sequence of mounts, tab switches and refresh
\* clicks, and every request belongs to one invocation of loadGrades, made
\* by a mount of the Grades view or a click on the refresh button.
C26_SingleFlight ==
    /\ Cardinality(InFlight) <= 1
    /\ \A c \in 1..Len(calls) :
         Cardinality({ l \in 1..Len(loads) : loads[l].call = c }) = 1

\* C27: every invocation of loadGrades ends, with isLoading = false on each
\* of its three paths, provided the fetch settles; without a Telegram user no
\* fetch is issued, userGrades is empty and error is set.
C27_LoadGradesEnds ==
    /\ [](view.mounted /\ OwnLoads # {} /\ loads[LatestLoad].pc = "done"
            => view.isLoading = FALSE)
    /\ [](\A l \in 1..Len(loads) :
            loads[l].path = "nouser" => loads[l].call = 0 /\ calls = <<>>)
    /\ [](view.mounted /\ OwnLoads # {} /\ loads[LatestLoad].path = "nouser"
            => view.userGrades = <<>> /\ view.error = NoUserError)
    /\ \A l \in 1..MaxLoads :
         (Len(loads) >= l /\ loads[l].pc = "await")
           ~> (Len(loads) >= l /\ loads[l].pc = "done")

\* One invocation has ended with the fetched records and the next with a
\* failure; nothing is loading.
C27_Witness ==
    /\ view.mounted
    /\ Len(loads) = 2
    /\ loads[1].path = "ok"
    /\ loads[2].path = "failed"
    /\ loads[2].inst = view.inst
    /\ view.isLoading = FALSE
    /\ view.error = FetchError

-----------------------------------------------------------------------------
(* Properties of NotificationManager (checked under SpecNotif)             *)

-----------------------------------------------------------------------------
(* Properties of the Chat view (checked under SpecChat)                    *)

\* The calls of sendMessage of the instance on display that are pending, and
\* those that have settled
LivePending == { k \in 1..Len(sends) : sends[k].live /\ sends[k].pc = "await" }
LiveSettled == { k \in 1..Len(sends) : sends[k].live /\ sends[k].pc # "await" }

\* C30: handleSend does nothing when the input is blank or a reply is
\* pending; otherwise it appends exactly one user message and, once the call
\* settles with a reply or an error, exactly one AI message is appended and
\* isLoading is reset, so that the list alternates user, ai, from a user
\* message on.
C30_ChatAlternates ==
    /\ \A n \in 1..Len(sendRuns) :
         LET run == sendRuns[n]
         IN  IF IsBlank(run.input) \/ run.pending
             THEN run.appended = <<>> /\ run.started = 0
             ELSE /\ run.appended = <<[sender |-> "user", text |-> run.input]>>
                  /\ run.started = 1
    /\ \A k \in 1..Len(chat.messages) :
         chat.messages[k].sender = IF k % 2 = 1 THEN "user" ELSE "ai"
    /\ chat.mounted =>
         /\ Cardinality(LivePending) <= 1
         /\ chat.isLoading <=> LivePending # {}
         /\ Len(chat.messages) = 2 * Cardinality(LiveSettled) + Cardinality(LivePending)

\* A form submitted while the reply was pending and one submitted with a
\* blank input were ignored; two messages were sent and answered, one with a
\* reply and one with the error text.
C30_Witness ==
    /\ chat.mounted
    /\ Len(chat.messages) = 4
    /\ chat.messages[2].text # chat.messages[4].text
    /\ ~chat.isLoading
    /\ \E n \in 1..Len(sendRuns) : sendRuns[n].pending
    /\ \E n \in 1..Len(sendRuns) : ~sendRuns[n].pending /\ sendRuns[n].input = <<" ">>

=============================================================================
